---------------------------- MODULE Spec2Model ----------------------------
(***************************************************************************)
(* Static Large Object middleware (swift/common/middleware/slo.py).        *)
(*                                                                         *)
(* The request handlers are modelled, each as its own state machine:       *)
(*   SpecGet    - SloGetContext._segment_listing_iterator, the recursive,  *)
(*                range-aware generator behind a GET of a manifest;        *)
(*   SpecDelete - StaticLargeObject.get_segments_to_delete_iter, the work  *)
(*                queue of ?multipart-manifest=delete;                     *)
(*   SpecPut    - StaticLargeObject.handle_multipart_put with              *)
(*                parse_and_validate_input;                                *)
(*   SpecResp   - SloGetContext.handle_slo_get_or_head: the manifest       *)
(*                re-fetch, the computed headers, the range window and     *)
(*                the first-segment probe, driving the generator.          *)
(*   SpecRoundTrip - a manifest stored by the PUT and read back by HEAD;   *)
(*   SpecCall   - StaticLargeObject.__call__, the dispatch to the handlers;*)
(*   SpecTwoGets - two GETs taking turns on one middleware instance.       *)
(*                                                                         *)
(* Strings whose text matters (etags, ranges, the input of the MD5) are    *)
(* sequences of one-character strings; object paths are atoms.  A digest   *)
(* is modelled by the text it was fed: MD5 is taken to be collision free.  *)
(***************************************************************************)
EXTENDS Integers, Sequences, FiniteSets, TLC

VARIABLES
    \* ---- GET: SloGetContext and the generator's frames
    first_byte,      \* self.first_byte (None until the iterator starts)
    last_byte,       \* self.last_byte
    stack,           \* active _segment_listing_iterator frames, innermost last
    g_pc,            \* "start" | "iter" | "done" | "error"
    g_err,           \* which ListingIterError ended the iteration
    yielded,         \* the (seg_dict, start, end) tuples yielded so far
    fetches,         \* the sub-manifest GETs issued so far
    req_segments,    \* the decoded top-level manifest of this GET
    req_window,      \* the window the request asked for (None, None when whole)
    \* ---- DELETE: get_segments_to_delete_iter
    d_segments,      \* the work queue `segments`
    d_pc,            \* "idle" | "walk" | "done" | "error"
    d_emitted,       \* the work items yielded to the bulk deleter
    d_root,          \* the manifest the DELETE names
    d_fetched,       \* the manifests get_slo_segments asked the backend for
    d_resps,         \* the backend's answer to each of those requests
    \* ---- PUT: handle_multipart_put
    p_pc,            \* "idle" | "check" | "parse" | "verify" | "finish" | "done"
    p_req,           \* the request: headers, body, configuration
    parsed_data,     \* the list parse_and_validate_input returned
    p_errors,        \* parse_and_validate_input's per-index errors
    index,           \* position of the verifier loop
    last_obj_path,
    head_seg_resp,
    heads,           \* the HEAD subrequests issued so far
    problem_segments,
    data_for_storage,
    slo_etag,        \* the text fed to the running MD5
    total_size,
    p_status,        \* the response status (0 while none)
    p_etag,          \* the ETag header of the response
    p_backend,       \* the PUTs forwarded to the backend
    \* ---- GET/HEAD: handle_slo_get_or_head and the response it builds
    h_pc,            \* "idle" | "call" | "probe" | "stream" | "done"
    h_req,           \* the client's request
    h_store,         \* the object the backend holds under the request path
    h_calls,         \* the backend calls made for the manifest, in order
    h_computed,      \* what get_or_head_response computed from the manifest
    h_resp,          \* what has been sent to the client
    \* ---- StaticLargeObject.__call__
    c_req,           \* the request entering the middleware
    c_route,         \* "" | the handler __call__ gave the request to
    c_status,        \* the status __call__ answered itself (0 while none)
    \* ---- a second GET in flight on the same middleware instance
    other,           \* the SloGetContext and generator of the suspended GET
    switches,        \* how often the two requests have taken turns
    \* ---- the manifest bodies of the GET path
    body_log         \* the response bodies opened, closed and returned, in order

getVars == <<first_byte, last_byte, stack, g_pc, g_err, yielded, fetches,
             req_segments, req_window>>
delVars == <<d_segments, d_pc, d_emitted, d_root, d_fetched, d_resps>>
putVars == <<p_pc, p_req, parsed_data, p_errors, index, last_obj_path,
             head_seg_resp, heads, problem_segments, data_for_storage,
             slo_etag, total_size, p_status, p_etag, p_backend>>
respVars == <<h_pc, h_req, h_store, h_calls, h_computed, h_resp>>
callVars == <<c_req, c_route, c_status>>
ctxVars == <<other, switches>>
vars == <<getVars, delVars, putVars, respVars, callVars, ctxVars, body_log>>

(***************************************************************************)
(* Values                                                                  *)
(***************************************************************************)
\* Python's None, for the integer attributes that start out unset.
None == 0 - 1000000

\* The absent / empty string (a missing 'range' key reads as falsy).
NoStr == <<>>

Max(a, b) == IF a >= b THEN a ELSE b
Min(a, b) == IF a <= b THEN a ELSE b

Digits == <<"0", "1", "2", "3", "4", "5", "6", "7", "8", "9">>

DigitVal(c) == (CHOOSE i \in 1..10 : Digits[i] = c) - 1

\* '%d' % n for n >= 0
RECURSIVE Dec(_)
Dec(n) ==
    IF n < 10 THEN <<Digits[n + 1]>>
    ELSE Dec(n \div 10) \o <<Digits[(n % 10) + 1]>>

\* int(s) for a string of decimal digits
RECURSIVE ParseInt(_)
ParseInt(s) ==
    IF Len(s) = 1 THEN DigitVal(s[1])
    ELSE 10 * ParseInt(SubSeq(s, 1, Len(s) - 1)) + DigitVal(s[Len(s)])

\* s.split('-') of a stored range 'A-B': the text before and after the dash
DashPos(s) == CHOOSE i \in 1..Len(s) : s[i] = "-"
RangeParts(s) ==
    <<ParseInt(SubSeq(s, 1, DashPos(s) - 1)),
      ParseInt(SubSeq(s, DashPos(s) + 1, Len(s)))>>

\* '%d-%d' % (a, b)
FormatRange(a, b) == Dec(a) \o <<"-">> \o Dec(b)

RECURSIVE SumSeq(_)
SumSeq(s) == IF Len(s) = 0 THEN 0 ELSE s[1] + SumSeq(Tail(s))

RECURSIVE Flatten(_)
Flatten(ss) == IF Len(ss) = 0 THEN <<>> ELSE ss[1] \o Flatten(Tail(ss))


(***************************************************************************)
(* Bounds and program constants                                            *)
(***************************************************************************)
\* Longest top-level manifest drawn from the entry pool.
MaxTop == 3

\* Most manifest fetches followed in one cascading delete (a cyclic manifest
\* whose deletes keep failing can be walked without end).
MaxDelFetches == 6

\* Longest client manifest drawn from the client entry pool.
MaxClient == 2

\* How often two interleaved GETs take turns.
MaxSwitches == 3

DEFAULT_MIN_SEGMENT_SIZE == 1024 * 1024
DEFAULT_MAX_MANIFEST_SEGMENTS == 1000
DEFAULT_MAX_MANIFEST_SIZE == 1024 * 1024 * 2

\* Entries of the wide manifest w.
WideLen == 6

\* swift.common.constraints.MAX_BUFFERED_SLO_SEGMENTS, scaled down.
MAX_BUFFERED_SLO_SEGMENTS == 4

\* SloGetContext.max_slo_recursion_depth
max_slo_recursion_depth == 10

(***************************************************************************)
(* The object store behind the middleware: stored manifests (lists of      *)
(* StoredSegmentEntry, as handle_multipart_put writes them) and the leaf   *)
(* segments they name.                                                     *)
(***************************************************************************)
\* A stored entry for a plain segment: name, bytes, hash (+ optional range).
Leaf(name, bytes) ==
    [name |-> name, bytes |-> bytes, hash |-> <<name>>, range |-> NoStr,
     sub_slo |-> FALSE, swift_bytes |-> None]

\* A stored entry whose object is itself a manifest ('sub_slo': True).  Its
\* bytes are the Content-Length the HEAD of the sub-SLO returned (its logical
\* total); swift_bytes is the same total when the recorded content type
\* still carries the parameter.
Sub(name, bytes, swift_bytes) ==
    [name |-> name, bytes |-> bytes, hash |-> <<name>>, range |-> NoStr,
     sub_slo |-> TRUE, swift_bytes |-> swift_bytes]

\* The entry with seg_data['range'] = 'a-b'.
Ranged(e, a, b) == [e EXCEPT !.range = FormatRange(a, b)]

\* D1 -> D2 -> ... -> D11: a chain one level deeper than the recursion limit.
ChainNames ==
    <<"D1", "D2", "D3", "D4", "D5", "D6", "D7", "D8", "D9", "D10", "D11">>

ChainIndex(name) == CHOOSE i \in 1..Len(ChainNames) : ChainNames[i] = name

\* The JSON body stored under a manifest path.
ManifestBody(name) ==
    CASE name = "S" -> <<Leaf("c", 2), Ranged(Sub("T", 3, None), 1, 2)>>
      [] name = "T" -> <<Leaf("d", 1), Leaf("e", 2)>>
      [] name = "A" -> <<Leaf("x", 1), Ranged(Sub("B", 3, None), 0, 1)>>
      [] name = "B" -> <<Sub("A", 3, None)>>
      [] name = "P" -> <<Sub("Q", 2, None)>>
      [] name = "Q" -> <<Sub("P", 2, None)>>
      [] name = "D11" -> <<Leaf("k", 2)>>
      [] name = "m" -> <<Leaf("s1", 2), Sub("m2", 4, None)>>
      [] name = "m2" -> <<Leaf("s2", 2), Leaf("s3", 2)>>
      [] name = "n" -> <<Sub("m", 6, None), Leaf("s4", 2), Sub("T", 3, None)>>
      [] name = "w" -> [k \in 1..WideLen |-> Leaf("w", 1)]
      [] name = "v" -> <<Leaf("s5", 2), Sub("w", WideLen, None)>>
      [] OTHER -> <<Sub(ChainNames[ChainIndex(name) + 1], 2, 2)>>

\* Entries a generated top-level manifest is made of.
EntryPool ==
    { Leaf("a", 2),
      Ranged(Leaf("b", 3), 1, 2),
      Leaf("z", 0),
      Ranged(Sub("S", 4, None), 1, 2) }

SeqsUpTo(S, n) == UNION { [1..k -> S] : k \in 0..n }

\* Top-level manifests over nested, cyclic and over-deep trees.
SpecialTops ==
    { <<Sub("D1", 2, None)>>,
      <<Sub("D2", 2, None)>>,
      <<Sub("D3", 2, None)>>,
      <<Leaf("a", 2), Sub("D1", 2, None)>>,
      <<Sub("A", 3, None)>>,
      <<Sub("P", 2, None), Leaf("a", 2)>>,
      <<Sub("T", 3, None), Sub("T", 3, None), Sub("S", 4, None)>>,
      <<Sub("S", 4, 4), Leaf("a", 2)>>,
      <<Leaf("a", 2), Sub("S", 4, 4), Sub("S", 4, 4)>> }

TopManifests == SeqsUpTo(EntryPool, MaxTop) \cup SpecialTops

(***************************************************************************)
(* SloGetContext                                                           *)
(***************************************************************************)
\* override_bytes_from_content_type(seg_dict): a swift_bytes parameter in the
\* recorded content type replaces 'bytes' and is removed.
OverrideBytes(seg_dict) ==
    IF seg_dict.sub_slo /\ seg_dict.swift_bytes # None
    THEN [seg_dict EXCEPT !.bytes = seg_dict.swift_bytes, !.swift_bytes = None]
    ELSE seg_dict

OverrideAll(segments) == [k \in 1..Len(segments) |-> OverrideBytes(segments[k])]

\* A length that counts the whole object of a ranged entry.
SegmentLength_IgnoreRange(seg_dict) == seg_dict.bytes

\* _segment_length
SegmentLength(seg_dict) ==
    IF seg_dict.range # NoStr
    THEN RangeParts(seg_dict.range)[2] - RangeParts(seg_dict.range)[1] + 1
    ELSE seg_dict.bytes

\* range_start, range_end of the loop body
RangeStart(seg_dict) ==
    IF seg_dict.range = NoStr THEN 0 ELSE RangeParts(seg_dict.range)[1]
RangeEnd(seg_dict) ==
    IF seg_dict.range = NoStr THEN SegmentLength(seg_dict) - 1
    ELSE RangeParts(seg_dict.range)[2]

TotalLength(segments) ==
    SumSeq([k \in 1..Len(segments) |-> SegmentLength(segments[k])])

\* A generator frame: the arguments and locals of one activation.
Frame(segments, recursion_depth, ipath) ==
    [segments |-> segments, i |-> 1, recursion_depth |-> recursion_depth,
     last_sub_path |-> "", sub_segments |-> <<>>,
     orig_start |-> 0, orig_end |-> 0, ipath |-> ipath]

cur == stack[Len(stack)]
seg_dict == cur.segments[cur.i]
InLoop == g_pc = "iter" /\ Len(stack) > 0 /\ cur.i <= Len(cur.segments)

SetTop(f) == [stack EXCEPT ![Len(stack)] = f]

\* Mutant of SkipTest: an off-by-one in the skip test.
SkipTest_OffByOne(fb, seg_length) == fb > seg_length

\* "if self.first_byte >= seg_length": no byte of this entry is wanted
SkipTest(fb, seg_length) == fb >= seg_length

\* "if self.last_byte < 0": no byte of this or a later entry is wanted
BreakTest(lb) == lb < 0

\* Mutants of DepthExceeded: the limit tested one level late, or not at all.
DepthExceeded_Late(recursion_depth) ==
    recursion_depth > max_slo_recursion_depth
DepthExceeded_Never(recursion_depth) == FALSE

\* "if recursion_depth >= self.max_slo_recursion_depth"
DepthExceeded(recursion_depth) == recursion_depth >= max_slo_recursion_depth

\* An iterator that fetches every reference afresh.
MustFetch_Always(last_path, sub_path) == TRUE

\* "if last_sub_path != sub_path": the sub-manifest has to be fetched
MustFetch(last_path, sub_path) == last_path # sub_path

\* The window handed to the recursive call (lines 447-448)
SubFirst(sd, fb) == RangeStart(sd) + Max(0, fb)
SubLast(sd, lb) == Min(RangeEnd(sd), RangeStart(sd) + lb)

\* Mutant of YieldStart: the offset of the window into the entry is dropped.
YieldStart_NoOffset(sd, fb) == RangeStart(sd)

\* The tuple a leaf entry yields (lines 460-462)
YieldStart(sd, fb) == Max(0, fb) + RangeStart(sd)
YieldEnd(sd, lb) == Min(RangeEnd(sd), RangeStart(sd) + lb)

\* The call from _manifest_get_response, up to the first loop test.
IterStart ==
    /\ g_pc = "start"
    /\ first_byte' = IF first_byte = None THEN 0 ELSE first_byte
    /\ last_byte' = IF last_byte = None
                    THEN TotalLength(OverrideAll(req_segments)) - 1
                    ELSE last_byte
    /\ stack' = <<Frame(OverrideAll(req_segments), 1, <<>>)>>
    /\ g_pc' = "iter"
    /\ UNCHANGED <<g_err, yielded, fetches, req_segments, req_window>>
    /\ UNCHANGED <<delVars, putVars, respVars, callVars, ctxVars, body_log>>

LoopSkip ==
    /\ InLoop
    /\ SkipTest(first_byte, SegmentLength(seg_dict))
    /\ first_byte' = first_byte - SegmentLength(seg_dict)
    /\ last_byte' = last_byte - SegmentLength(seg_dict)
    /\ stack' = SetTop([cur EXCEPT !.i = cur.i + 1])
    /\ UNCHANGED <<g_pc, g_err, yielded, fetches, req_segments, req_window>>
    /\ UNCHANGED <<delVars, putVars, respVars, callVars, ctxVars, body_log>>

\* break: the for loop is left and the generator is exhausted
LoopBreak ==
    /\ InLoop
    /\ ~SkipTest(first_byte, SegmentLength(seg_dict))
    /\ BreakTest(last_byte)
    /\ stack' = SetTop([cur EXCEPT !.i = Len(cur.segments) + 1])
    /\ UNCHANGED <<first_byte, last_byte, g_pc, g_err, yielded, fetches,
                   req_segments, req_window>>
    /\ UNCHANGED <<delVars, putVars, respVars, callVars, ctxVars, body_log>>

LoopYield ==
    /\ InLoop
    /\ ~SkipTest(first_byte, SegmentLength(seg_dict))
    /\ ~BreakTest(last_byte)
    /\ ~seg_dict.sub_slo
    /\ yielded' = Append(yielded, <<seg_dict, YieldStart(seg_dict, first_byte),
                                    YieldEnd(seg_dict, last_byte)>>)
    /\ first_byte' = first_byte - SegmentLength(seg_dict)
    /\ last_byte' = last_byte - SegmentLength(seg_dict)
    /\ stack' = SetTop([cur EXCEPT !.i = cur.i + 1])
    /\ UNCHANGED <<g_pc, g_err, fetches, req_segments, req_window>>
    /\ UNCHANGED <<delVars, putVars, respVars, callVars, ctxVars, body_log>>

\* raise ListingIterError("Max recursion depth exceeded")
LoopDepthError ==
    /\ InLoop
    /\ ~SkipTest(first_byte, SegmentLength(seg_dict))
    /\ ~BreakTest(last_byte)
    /\ seg_dict.sub_slo
    /\ DepthExceeded(cur.recursion_depth)
    /\ g_pc' = "error"
    /\ g_err' = "depth"
    /\ UNCHANGED <<first_byte, last_byte, stack, yielded, fetches,
                   req_segments, req_window>>
    /\ UNCHANGED <<delVars, putVars, respVars, callVars, ctxVars, body_log>>

FetchRecord == [path |-> seg_dict.name, ipath |-> Append(cur.ipath, cur.i),
                depth |-> cur.recursion_depth]

\* An event of a response body: it is opened when the backend call
\* returns, closed by close_if_possible / closing_if_possible (`at` tells
\* where), or returned to the WSGI caller as the response's own body.
BodyEvent(ev, body, at) == [ev |-> ev, body |-> body, at |-> at]

\* A fetcher that leaves the body of a non-success answer open.
FetchEvents_LeakOnStatus(body, outcome) ==
    IF outcome = "status" THEN <<BodyEvent("open", body, "")>>
    ELSE <<BodyEvent("open", body, ""), BodyEvent("close", body, outcome)>>

\* _fetch_sub_slo_segments (lines 346-371): the body of sub_resp is closed
\* before the raise on a non-success status ("status"), on leaving the
\* with block after json.loads returned ("decoded") and on leaving it with
\* a ValueError ("json").
FetchEvents(body, outcome) ==
    <<BodyEvent("open", body, ""), BodyEvent("close", body, outcome)>>

\* The body of the sub-manifest GET about to be made.
SubBody == <<"sub", Len(fetches) + 1>>

\* _fetch_sub_slo_segments raised: a non-success status or a body that
\* does not decode
LoopFetchFail ==
    /\ InLoop
    /\ ~SkipTest(first_byte, SegmentLength(seg_dict))
    /\ ~BreakTest(last_byte)
    /\ seg_dict.sub_slo
    /\ ~DepthExceeded(cur.recursion_depth)
    /\ MustFetch(cur.last_sub_path, seg_dict.name)
    /\ fetches' = Append(fetches, FetchRecord)
    /\ \E outcome \in {"status", "json"} :
          body_log' = body_log \o FetchEvents(SubBody, outcome)
    /\ g_pc' = "error"
    /\ g_err' = "fetch"
    /\ UNCHANGED <<first_byte, last_byte, stack, yielded, req_segments,
                   req_window>>
    /\ UNCHANGED <<delVars, putVars, respVars, callVars, ctxVars>>

\* The sub_slo branch: fetch unless cached, slice the window, recurse.
LoopDescend ==
    /\ InLoop
    /\ ~SkipTest(first_byte, SegmentLength(seg_dict))
    /\ ~BreakTest(last_byte)
    /\ seg_dict.sub_slo
    /\ ~DepthExceeded(cur.recursion_depth)
    /\ LET fetch == MustFetch(cur.last_sub_path, seg_dict.name)
           sub_segments == IF fetch THEN ManifestBody(seg_dict.name)
                           ELSE cur.sub_segments
           caller == [cur EXCEPT !.last_sub_path = seg_dict.name,
                                 !.sub_segments = OverrideAll(sub_segments),
                                 !.orig_start = first_byte,
                                 !.orig_end = last_byte]
       IN /\ fetches' = IF fetch THEN Append(fetches, FetchRecord) ELSE fetches
          /\ body_log' = IF fetch
                         THEN body_log \o FetchEvents(SubBody, "decoded")
                         ELSE body_log
          /\ first_byte' = SubFirst(seg_dict, first_byte)
          /\ last_byte' = SubLast(seg_dict, last_byte)
          /\ stack' = Append(SetTop(caller),
                             Frame(OverrideAll(sub_segments),
                                   cur.recursion_depth + 1,
                                   Append(cur.ipath, cur.i)))
    /\ UNCHANGED <<g_pc, g_err, yielded, req_segments, req_window>>
    /\ UNCHANGED <<delVars, putVars, respVars, callVars, ctxVars>>

\* A generator is exhausted: the caller restores its window and moves on
\* (lines 456, 464-465); the outermost one ends the listing.
IterReturn ==
    /\ g_pc = "iter"
    /\ Len(stack) > 0
    /\ cur.i > Len(cur.segments)
    /\ IF Len(stack) = 1
       THEN /\ stack' = <<>>
            /\ g_pc' = "done"
            /\ UNCHANGED <<first_byte, last_byte>>
       ELSE LET caller == stack[Len(stack) - 1]
                seg_length == SegmentLength(caller.segments[caller.i])
            IN /\ first_byte' = caller.orig_start - seg_length
               /\ last_byte' = caller.orig_end - seg_length
               /\ stack' = Append(SubSeq(stack, 1, Len(stack) - 2),
                                  [caller EXCEPT !.i = caller.i + 1])
               /\ UNCHANGED g_pc
    /\ UNCHANGED <<g_err, yielded, fetches, req_segments, req_window>>
    /\ UNCHANGED <<delVars, putVars, respVars, callVars, ctxVars, body_log>>

DelIdle ==
    /\ d_segments = <<>> /\ d_pc = "idle" /\ d_emitted = <<>> /\ d_root = ""
    /\ d_fetched = <<>> /\ d_resps = <<>>

PutIdle ==
    /\ p_pc = "idle" /\ p_req = <<>> /\ parsed_data = <<>> /\ p_errors = <<>>
    /\ index = 0 /\ last_obj_path = <<>> /\ head_seg_resp = <<>> /\ heads = <<>>
    /\ problem_segments = <<>> /\ data_for_storage = <<>> /\ slo_etag = <<>>
    /\ total_size = 0 /\ p_status = 0 /\ p_etag = <<>> /\ p_backend = <<>>

RespIdle ==
    /\ h_pc = "idle" /\ h_req = <<>> /\ h_store = <<>> /\ h_calls = <<>>
    /\ h_computed = <<>> /\ h_resp = <<>>

CallIdle == c_req = <<>> /\ c_route = "" /\ c_status = 0

\* No second GET is in flight.
CtxIdle == other = <<>> /\ switches = 0

Windows(total) ==
    {<<None, None>>} \cup {<<f, l>> : f \in 0..(total - 1), l \in 0..(total - 1)}

\* A GET whose manifest was decoded and whose window _manifest_get_response
\* has set: unset for a whole-object GET, else one satisfiable range.
InitGet ==
    /\ req_segments \in TopManifests
    /\ req_window \in {w \in Windows(TotalLength(OverrideAll(req_segments))) :
                         w[1] <= w[2]}
    /\ first_byte = req_window[1]
    /\ last_byte = req_window[2]
    /\ stack = <<>>
    /\ g_pc = "start"
    /\ g_err = ""
    /\ yielded = <<>>
    /\ fetches = <<>>
    /\ DelIdle
    /\ PutIdle
    /\ RespIdle
    /\ CallIdle
    /\ CtxIdle
    /\ body_log = <<>>

NextGet ==
    \/ IterStart
    \/ LoopSkip
    \/ LoopBreak
    \/ LoopYield
    \/ LoopDepthError
    \/ LoopFetchFail
    \/ LoopDescend
    \/ IterReturn

SpecGet == InitGet /\ [][NextGet]_vars

\* The generator is driven to its end by the response's consumer.
SpecGetFair == SpecGet /\ WF_vars(NextGet)

(***************************************************************************)
(* What a GET is meant to return: the logical concatenation of a manifest  *)
(* tree, byte by byte, computed with the window as an immutable parameter. *)
(***************************************************************************)
\* Bytes a..b (0-based, inclusive) of a byte sequence.
Slice(s, a, b) == SubSeq(s, a + 1, b + 1)

\* The bytes of a leaf object: each is tagged with its object and offset.
ObjectBytes(name, n) == [k \in 1..n |-> <<name, k - 1>>]

\* Levels of manifests below and including this one; fuel caps a cycle.
RECURSIVE TreeDepth(_, _)
TreeDepth(segments, fuel) ==
    IF fuel = 0 THEN 0
    ELSE LET subs == {k \in 1..Len(segments) : segments[k].sub_slo}
             below == {TreeDepth(ManifestBody(segments[k].name), fuel - 1) :
                         k \in subs}
         IN 1 + (IF below = {} THEN 0
                 ELSE CHOOSE m \in below : \A n \in below : n <= m)

DepthFuel == max_slo_recursion_depth + 3

Acyclic(segments) == TreeDepth(segments, DepthFuel) < DepthFuel

\* The declared source range of an entry, read from its 'A-B' text.
DeclFirst(e) == IF e.range = NoStr THEN 0 ELSE RangeParts(e.range)[1]
DeclLast(e) == IF e.range = NoStr THEN e.bytes - 1 ELSE RangeParts(e.range)[2]
EffLen(e) == DeclLast(e) - DeclFirst(e) + 1

RECURSIVE Concat(_)
Concat(segments) ==
    Flatten([k \in 1..Len(segments) |->
        LET e == segments[k]
        IN Slice(IF e.sub_slo THEN Concat(ManifestBody(e.name))
                 ELSE ObjectBytes(e.name, e.bytes),
                 DeclFirst(e), DeclLast(e))])

LogicalTotal(segments) ==
    SumSeq([k \in 1..Len(segments) |-> EffLen(segments[k])])

\* The window the request stands for.
WantFirst == IF req_window[1] = None THEN 0 ELSE req_window[1]
WantLast ==
    IF req_window[2] = None THEN LogicalTotal(req_segments) - 1
    ELSE req_window[2]

\* entry.object[start..end] over the tuples yielded so far, in yield order
YieldedBytes ==
    Flatten([k \in 1..Len(yielded) |->
        Slice(ObjectBytes(yielded[k][1].name, yielded[k][1].bytes),
              yielded[k][2], yielded[k][3])])

IsPrefix(s, t) == Len(s) <= Len(t) /\ s = SubSeq(t, 1, Len(s))

\* Offset of entry k within its manifest's logical concatenation.
Offset(segments, k) == SumSeq([j \in 1..(k - 1) |-> EffLen(segments[j])])

\* An entry at offset p of length n is neither wholly before [f, l]
\* (p + n <= f) nor wholly after it (p > l).
Intersects(p, n, f, l) == p + n > f /\ p <= l

\* The sub_slo references (as index paths from the top-level manifest) whose
\* span meets the window; a reference is searched only inside such a span.
RECURSIVE NeededPaths(_, _, _, _, _)
NeededPaths(segments, f, l, prefix, fuel) ==
    IF fuel = 0 THEN {}
    ELSE UNION {
        LET e == segments[k]
            p == Offset(segments, k)
        IN IF e.sub_slo /\ Intersects(p, EffLen(e), f, l)
           THEN {Append(prefix, k)} \cup
                NeededPaths(ManifestBody(e.name),
                            DeclFirst(e) + Max(0, f - p),
                            Min(DeclLast(e), DeclFirst(e) + (l - p)),
                            Append(prefix, k), fuel - 1)
           ELSE {}
        : k \in 1..Len(segments) }

(***************************************************************************)
(* Properties of the segment listing iterator                              *)
(***************************************************************************)
\* C1: for a finite manifest tree unchanged since upload and a window
\* [f, l], the yielded entry.object[start..end], in yield order, are always
\* a prefix of bytes f..l of the logical concatenation, and are exactly those
\* bytes once the iterator is exhausted; the iterator ends early only on a
\* failed sub-manifest GET or on the recursion limit of an over-deep tree.
GetWindowExact ==
    Acyclic(req_segments) =>
        LET want == Slice(Concat(req_segments), WantFirst, WantLast)
        IN /\ IsPrefix(YieldedBytes, want)
           /\ g_pc = "done" => YieldedBytes = want
           /\ g_pc = "error" /\ g_err = "depth" =>
                  TreeDepth(req_segments, DepthFuel) > max_slo_recursion_depth

\* C1 witness: a ranged window over a nested, ranged tree was served whole.
GetWindowExactWitness ==
    /\ g_pc = "done"
    /\ req_window # <<None, None>>
    /\ Len(fetches) >= 2
    /\ Len(yielded) >= 3
    /\ \E k \in 1..Len(yielded) : yielded[k][2] > 0

\* C2: every yielded tuple satisfies 0 <= start <= end < entry.bytes.
YieldedWithinSegment ==
    \A k \in 1..Len(yielded) :
        /\ 0 <= yielded[k][2]
        /\ yielded[k][2] <= yielded[k][3]
        /\ yielded[k][3] < yielded[k][1].bytes

\* C3: a sub-manifest GET is issued only for a sub_slo entry whose span
\* meets the window; entries wholly before or after it are never fetched.
FetchOnlyInsideWindow ==
    \A k \in 1..Len(fetches) :
        fetches[k].ipath \in
            NeededPaths(req_segments, WantFirst, WantLast, <<>>, DepthFuel)

\* C3 witness (scenario S3, scaled): sub-SLO S then segment a, the window
\* starts right after S; S was never fetched and a yields from its byte 0.
FetchOnlyInsideWindowWitness ==
    /\ g_pc = "done"
    /\ Len(req_segments) = 2
    /\ req_segments[1].sub_slo
    /\ req_window[1] = EffLen(req_segments[1])
    /\ fetches = <<>>
    /\ Len(yielded) = 1
    /\ yielded[1][2] = 0

\* C4: a sub_slo entry met at recursion depth 10 raises before its GET is
\* issued, so every GET is issued from depth 9 or less and no chain of
\* nested fetches is longer than 9.
DepthLimitInv ==
    /\ \A k \in 1..Len(fetches) :
          /\ fetches[k].depth < max_slo_recursion_depth
          /\ Len(fetches[k].ipath) <= max_slo_recursion_depth - 1
    /\ Len(stack) <= max_slo_recursion_depth
    /\ g_pc = "error" /\ g_err = "depth" =>
          /\ cur.recursion_depth = max_slo_recursion_depth
          /\ seg_dict.sub_slo
          /\ \A k \in 1..Len(fetches) :
                fetches[k].ipath # Append(cur.ipath, cur.i)

AtDepthLimit ==
    /\ InLoop
    /\ cur.recursion_depth = max_slo_recursion_depth
    /\ seg_dict.sub_slo
    /\ first_byte < SegmentLength(seg_dict)
    /\ last_byte >= 0

DepthLimitRaises ==
    [](DepthLimitInv) /\
    [][AtDepthLimit => (g_pc' = "error" /\ g_err' = "depth"
                        /\ fetches' = fetches)]_vars

\* C4 witness: the limit was hit after a chain of exactly 9 fetches.
DepthLimitWitness ==
    /\ g_pc = "error"
    /\ g_err = "depth"
    /\ Len(fetches) = max_slo_recursion_depth - 1
    /\ Len(stack) = max_slo_recursion_depth

\* C5 as stated: a GET over a tree nested deeper than 10 levels (a cyclic
\* one included) ends with a listing error.
DeepTreeEndsInError ==
    TreeDepth(req_segments, DepthFuel) > max_slo_recursion_depth
        => g_pc # "done"

\* C5 amended: every GET, also over an over-deep or cyclic tree, stops
\* (exhausted or with a listing error) after a bounded number of
\* sub-manifest fetches, and it completes without the depth error only if
\* its window never led it to a sub_slo entry at depth 10.
FetchBound == Len(req_segments) * (max_slo_recursion_depth - 1)

GetStops ==
    /\ <>(g_pc \in {"done", "error"})
    /\ [](Len(fetches) <= FetchBound)
    /\ [][AtDepthLimit => g_pc' = "error"]_vars

\* C5 witness: a cyclic manifest (P -> Q -> P) ended at the depth limit.
GetStopsWitness ==
    /\ g_pc = "error"
    /\ g_err = "depth"
    /\ req_segments[1].name = "P"
    /\ Len(fetches) = max_slo_recursion_depth - 1

(***************************************************************************)
(* StaticLargeObject.get_segments_to_delete_iter                           *)
(***************************************************************************)
\* A work item: seg_data with its name, its sub_slo flag and, once a fetch
\* of it failed, seg_data['error']['code'] (0 while there is none) and
\* seg_data['error']['message'].
Item(name, sub_slo) ==
    [name |-> name, sub_slo |-> sub_slo, error |-> 0, message |-> ""]

\* json.loads(resp.body): the stored entries, as work items.
BodyItems(name) ==
    [k \in 1..Len(ManifestBody(name)) |->
        Item(ManifestBody(name)[k].name, ManifestBody(name)[k].sub_slo)]

\* What the backend may answer to GET ?multipart-manifest=get.
BackendResponses ==
    { [status |-> 200, slo |-> TRUE, json |-> TRUE],
      [status |-> 200, slo |-> TRUE, json |-> FALSE],
      [status |-> 200, slo |-> FALSE, json |-> TRUE],
      [status |-> 404, slo |-> FALSE, json |-> FALSE],
      [status |-> 401, slo |-> FALSE, json |-> FALSE],
      [status |-> 503, slo |-> FALSE, json |-> FALSE] }

IsSuccess(status) == status >= 200 /\ status <= 299

\* get_slo_segments: the status of the HTTPException it raises (0: none)
SloSegmentsError(resp) ==
    IF IsSuccess(resp.status)
    THEN IF resp.slo THEN (IF resp.json THEN 0 ELSE 500) ELSE 400
    ELSE IF resp.status = 404 THEN 404
    ELSE IF resp.status = 401 THEN 401
    ELSE 500

\* get_slo_segments: the body of the HTTPException it raises
SloSegmentsMessage(resp) ==
    IF IsSuccess(resp.status)
    THEN IF resp.slo
         THEN (IF resp.json THEN "" ELSE "Unable to load SLO manifest")
         ELSE "Not an SLO manifest"
    ELSE IF resp.status = 404 THEN "SLO manifest not found"
    ELSE IF resp.status = 401 THEN "401 Unauthorized"
    ELSE "Unable to load SLO manifest or segment."

\* A walk without the limit on the queue.
TooManyBuffered_Never(segments) == FALSE

\* "if len(segments) > MAX_BUFFERED_SLO_SEGMENTS"
TooManyBuffered(segments) == Len(segments) > MAX_BUFFERED_SLO_SEGMENTS

\* A walk that does not put the fetched manifest itself back on the queue.
Requeue_EntriesOnly(rest, seg_data, resp) ==
    IF SloSegmentsError(resp) = 0
    THEN rest \o BodyItems(seg_data.name)
    ELSE Append(rest, [seg_data EXCEPT !.sub_slo = FALSE,
                                       !.error = SloSegmentsError(resp),
                                       !.message = SloSegmentsMessage(resp)])

\* A walk that drops the item whose fetch failed.
Requeue_DropFailed(rest, seg_data, resp) ==
    IF SloSegmentsError(resp) = 0
    THEN Append(rest \o BodyItems(seg_data.name),
                [seg_data EXCEPT !.sub_slo = FALSE])
    ELSE rest

\* The queue after a sub_slo item was popped and expanded: its entries (none
\* when the fetch raised), then the item itself with sub_slo False.
Requeue(rest, seg_data, resp) ==
    IF SloSegmentsError(resp) = 0
    THEN Append(rest \o BodyItems(seg_data.name),
                [seg_data EXCEPT !.sub_slo = FALSE])
    ELSE Append(rest, [seg_data EXCEPT !.sub_slo = FALSE,
                                       !.error = SloSegmentsError(resp),
                                       !.message = SloSegmentsMessage(resp)])

\* raise HTTPBadRequest('Too many buffered slo segments to delete.')
DelTooMany ==
    /\ d_pc = "walk"
    /\ d_segments # <<>>
    /\ TooManyBuffered(d_segments)
    /\ d_pc' = "error"
    /\ UNCHANGED <<d_segments, d_emitted, d_root, d_fetched, d_resps>>
    /\ UNCHANGED <<getVars, putVars, respVars, callVars, ctxVars, body_log>>

\* A sub_slo item is popped, fetched and put back behind its entries.
DelExpand ==
    /\ d_pc = "walk"
    /\ d_segments # <<>>
    /\ ~TooManyBuffered(d_segments)
    /\ Head(d_segments).sub_slo
    /\ Len(d_fetched) < MaxDelFetches
    /\ \E resp \in BackendResponses :
          /\ d_segments' = Requeue(Tail(d_segments), Head(d_segments), resp)
          /\ d_resps' = Append(d_resps, resp)
    /\ d_fetched' = Append(d_fetched, Head(d_segments).name)
    /\ UNCHANGED <<d_pc, d_emitted, d_root>>
    /\ UNCHANGED <<getVars, putVars, respVars, callVars, ctxVars, body_log>>

\* A plain item is popped and yielded to the bulk deleter.
DelEmit ==
    /\ d_pc = "walk"
    /\ d_segments # <<>>
    /\ ~TooManyBuffered(d_segments)
    /\ ~Head(d_segments).sub_slo
    /\ d_emitted' = Append(d_emitted, Head(d_segments))
    /\ d_segments' = Tail(d_segments)
    /\ UNCHANGED <<d_pc, d_root, d_fetched, d_resps>>
    /\ UNCHANGED <<getVars, putVars, respVars, callVars, ctxVars, body_log>>

\* "while segments" ends
DelDone ==
    /\ d_pc = "walk"
    /\ d_segments = <<>>
    /\ d_pc' = "done"
    /\ UNCHANGED <<d_segments, d_emitted, d_root, d_fetched, d_resps>>
    /\ UNCHANGED <<getVars, putVars, respVars, callVars, ctxVars, body_log>>

GetIdle ==
    /\ first_byte = None /\ last_byte = None /\ stack = <<>> /\ g_pc = "idle"
    /\ g_err = "" /\ yielded = <<>> /\ fetches = <<>>
    /\ req_segments = <<>> /\ req_window = <<None, None>>

\* The manifests a DELETE ?multipart-manifest=delete may name.
DelRoots == {"m", "m2", "n", "w", "v", "S", "P", "D9"}

InitDelete ==
    /\ d_root \in DelRoots
    /\ d_segments = <<Item(d_root, TRUE)>>
    /\ d_pc = "walk"
    /\ d_emitted = <<>>
    /\ d_fetched = <<>>
    /\ d_resps = <<>>
    /\ GetIdle
    /\ PutIdle
    /\ RespIdle
    /\ CallIdle
    /\ CtxIdle
    /\ body_log = <<>>

NextDelete ==
    \/ DelTooMany
    \/ DelExpand
    \/ DelEmit
    \/ DelDone

SpecDelete == InitDelete /\ [][NextDelete]_vars

\* The bulk deleter consumes the generator until it is exhausted or raises.
SpecDeleteFair == SpecDelete /\ WF_vars(NextDelete)

\* Position of the first work item emitted for a name (0 when none).
EmittedAt(name) ==
    IF \E k \in 1..Len(d_emitted) : d_emitted[k].name = name
    THEN CHOOSE k \in 1..Len(d_emitted) :
            /\ d_emitted[k].name = name
            /\ \A j \in 1..(k - 1) : d_emitted[j].name # name
    ELSE 0

\* C6: a manifest's own work item is emitted after the work items of all
\* segments and sub-manifests reachable from it: when no fetch failed and a
\* manifest is emitted, every entry of its manifest has been emitted before
\* it (for m = [s1, m2], m2 = [s2, s3] the order is s1, s2, s3, m2, m).
ManifestAfterChildren ==
    (\A k \in 1..Len(d_emitted) : d_emitted[k].error = 0)
    /\ (\A k \in 1..Len(d_segments) : d_segments[k].error = 0)
    => /\ \A k \in 1..Len(d_emitted) :
            LET seg_data == d_emitted[k]
            IN (\E j \in 1..Len(d_fetched) : d_fetched[j] = seg_data.name) =>
                  \A c \in 1..Len(ManifestBody(seg_data.name)) :
                      LET at == EmittedAt(ManifestBody(seg_data.name)[c].name)
                      IN at # 0 /\ at < k
       /\ (d_pc = "done" /\ d_root = "m") =>
            [k \in 1..Len(d_emitted) |-> d_emitted[k].name]
                = <<"s1", "s2", "s3", "m2", "m">>

(***************************************************************************)
(* swob.Range, as parse_and_validate_input and handle_multipart_put use it *)
(***************************************************************************)
IsNumber(t) == Len(t) > 0 /\ \A k \in 1..Len(t) : \E d \in 1..10 : Digits[d] = t[k]

\* text.split(','): the comma-separated byte-range-specs
RECURSIVE SplitComma(_)
SplitComma(t) ==
    IF \A k \in 1..Len(t) : t[k] # ","
    THEN <<t>>
    ELSE LET c == CHOOSE k \in 1..Len(t) :
                     t[k] = "," /\ \A j \in 1..(k - 1) : t[j] # ","
         IN <<SubSeq(t, 1, c - 1)>> \o SplitComma(SubSeq(t, c + 1, Len(t)))

\* One byte-range-spec: 'M-N', 'M-' or '-N'; (start, end) with None for a
\* missing side, or invalid.
ParseOneRange(t) ==
    IF \A k \in 1..Len(t) : t[k] # "-"
    THEN [ok |-> FALSE, start |-> None, end |-> None]
    ELSE LET d == CHOOSE k \in 1..Len(t) :
                     t[k] = "-" /\ \A j \in 1..(k - 1) : t[j] # "-"
             a == SubSeq(t, 1, d - 1)
             b == SubSeq(t, d + 1, Len(t))
         IN IF (a # <<>> /\ ~IsNumber(a)) \/ (b # <<>> /\ ~IsNumber(b))
               \/ (a = <<>> /\ b = <<>>)
            THEN [ok |-> FALSE, start |-> None, end |-> None]
            ELSE IF a # <<>> /\ b # <<>> /\ ParseInt(b) < ParseInt(a)
            THEN [ok |-> FALSE, start |-> None, end |-> None]
            ELSE [ok |-> TRUE,
                  start |-> IF a = <<>> THEN None ELSE ParseInt(a),
                  end |-> IF b = <<>> THEN None ELSE ParseInt(b)]

\* Range('bytes=%s' % text): the parsed specs; ok is FALSE where the
\* constructor raises ValueError.
ParseRange(t) ==
    LET specs == SplitComma(t)
        parsed == [k \in 1..Len(specs) |-> ParseOneRange(specs[k])]
    IN [ok |-> \A k \in 1..Len(parsed) : parsed[k].ok,
        ranges |-> [k \in 1..Len(parsed) |-> <<parsed[k].start, parsed[k].end>>]]

\* What one (start, end) becomes for a body of `length` bytes: a sequence
\* with the half-open (begin, end) pair, or empty when unsatisfiable.
OneRangeForLength(r, length) ==
    IF r[1] = None
    THEN IF r[2] = 0 THEN <<>>
         ELSE IF r[2] > length THEN <<(<<0, length>>)>>
         ELSE <<(<<length - r[2], length>>)>>
    ELSE IF r[1] >= length THEN <<>>
    ELSE IF r[2] = None THEN <<(<<r[1], length>>)>>
    ELSE <<(<<r[1], Min(r[2] + 1, length)>>)>>

\* Range.ranges_for_length(length)
RangesForLength(ranges, length) ==
    Flatten([k \in 1..Len(ranges) |-> OneRangeForLength(ranges[k], length)])

(***************************************************************************)
(* The client manifest and parse_and_validate_input                        *)
(***************************************************************************)
\* A path as the client wrote it: leading slashes, then its components.
Path(lead, comps) == [lead |-> lead, comps |-> comps]

\* One element of the client's JSON list.  size_kind tells how size_bytes
\* was written: null, a number, a numeric string, or something int() rejects.
ClientEntry(path, etag, size_kind, size, range) ==
    [is_dict |-> TRUE, missing |-> {}, extra |-> {}, path_is_str |-> TRUE,
     path |-> path,
     etag_kind |-> IF etag = NoStr THEN "null" ELSE "str", etag |-> etag,
     size_kind |-> size_kind, size |-> size, range |-> range]

\* urllib quote() of a path, component by component.
QuoteComp(c) == IF c = "o o" THEN "o%20o" ELSE c
Quote(comps) == [k \in 1..Len(comps) |-> QuoteComp(comps[k])]

\* '/'.join(['', vrs, account, path.lstrip('/')])
ObjPath(req, path) == SubSeq(req.path_info, 1, 2) \o path.comps

\* int(seg_size) of a size_bytes that is not null
SizeBytes(e) == IF e.size_kind = "null" THEN None ELSE e.size

\* A parser without the check for a manifest naming itself.
ParseError_NoSelfCheck(e, seg_index, num_segs, req) ==
    IF ~e.is_dict THEN "not a JSON object"
    ELSE IF e.missing # {} THEN "missing keys"
    ELSE IF e.extra # {} THEN "extraneous keys"
    ELSE IF ~e.path_is_str THEN "path must be a string"
    ELSE IF e.etag_kind = "other" THEN "etag must be a string or null"
    ELSE IF Len(e.path.comps) < 2 THEN "path does not refer to an object"
    ELSE IF e.size_kind = "bad" THEN "invalid size_bytes"
    ELSE IF e.size_kind # "null" /\ e.size < req.min_segment_size
            /\ seg_index < num_segs - 1
         THEN "too small"
    ELSE IF e.range = NoStr THEN ""
    ELSE IF ~ParseRange(e.range).ok THEN "invalid range"
    ELSE IF Len(ParseRange(e.range).ranges) > 1 THEN "multiple ranges"
    ELSE IF e.size_kind # "null"
            /\ Len(RangesForLength(ParseRange(e.range).ranges, e.size)) # 1
         THEN "unsatisfiable range"
    ELSE ""

\* errors: one "Index %d: ..." line per failing entry, in index order
\* The first check the entry at seg_index (from 0) fails; "" when none.
ParseError(e, seg_index, num_segs, req) ==
    IF ~e.is_dict THEN "not a JSON object"
    ELSE IF e.missing # {} THEN "missing keys"
    ELSE IF e.extra # {} THEN "extraneous keys"
    ELSE IF ~e.path_is_str THEN "path must be a string"
    ELSE IF e.etag_kind = "other" THEN "etag must be a string or null"
    ELSE IF Len(e.path.comps) < 2 THEN "path does not refer to an object"
    ELSE IF e.size_kind = "bad" THEN "invalid size_bytes"
    ELSE IF e.size_kind # "null" /\ e.size < req.min_segment_size
            /\ seg_index < num_segs - 1
         THEN "too small"
    ELSE IF Quote(req.path_info) = Quote(ObjPath(req, e.path))
         THEN "manifest must not include itself as a segment"
    ELSE IF e.range = NoStr THEN ""
    ELSE IF ~ParseRange(e.range).ok THEN "invalid range"
    ELSE IF Len(ParseRange(e.range).ranges) > 1 THEN "multiple ranges"
    ELSE IF e.size_kind # "null"
            /\ Len(RangesForLength(ParseRange(e.range).ranges, e.size)) # 1
         THEN "unsatisfiable range"
    ELSE ""

\* errors: one "Index %d: ..." line per failing entry, in index order
HasMessage(r) == r.msg # ""

\* A parser that stops at the first failing entry.
ParseErrors_ShortCircuit(entries, req) ==
    LET all == SelectSeq([k \in 1..Len(entries) |->
                  [index |-> k - 1,
                   msg |-> ParseError(entries[k], k - 1, Len(entries), req)]],
                  HasMessage)
    IN IF all = <<>> THEN <<>> ELSE <<all[1]>>

ParseErrors(entries, req) ==
    SelectSeq([k \in 1..Len(entries) |->
                  [index |-> k - 1,
                   msg |-> ParseError(entries[k], k - 1, Len(entries), req)]],
              HasMessage)

\* seg_dict as returned: size_bytes an integer or None, range a swob.Range
ParsedEntry(e) ==
    [path |-> e.path, etag_kind |-> e.etag_kind, etag |-> e.etag,
     size_bytes |-> SizeBytes(e),
     has_range |-> e.range # NoStr,
     range_text |-> e.range,
     range_obj |-> IF e.range # NoStr THEN ParseRange(e.range).ranges ELSE <<>>]

\* req.body_file.read(max_manifest_size) handed to json.loads: a body cut
\* inside its JSON text no longer decodes; one cut inside trailing white
\* space (pad) still does.
ReadBodyKind(req) ==
    IF req.body.len > req.max_manifest_size
       /\ req.body.len - req.body.pad > req.max_manifest_size
    THEN "notjson"
    ELSE req.body.kind

(***************************************************************************)
(* StaticLargeObject.handle_multipart_put                                  *)
(***************************************************************************)
\* What a HEAD of a segment may answer (an object can be overwritten
\* between two lookups); a path not listed does not exist.
HeadResp(status, content_length, etag, slo) ==
    [status |-> status, content_length |-> content_length, etag |-> etag,
     slo |-> slo]

HeadResponses(comps) ==
    CASE comps = <<"c", "a">> -> {HeadResp(200, 1048576, <<"e", "1">>, FALSE)}
      [] comps = <<"c", "b">> -> {HeadResp(200, 512, <<"e", "2">>, FALSE),
                                  HeadResp(200, 600, <<"e", "3">>, FALSE)}
      [] comps = <<"c", "x">> -> {HeadResp(200, 1000, <<"e", "x">>, FALSE),
                                  HeadResp(200, 150, <<"e", "y">>, FALSE)}
      [] comps = <<"c", "z">> -> {HeadResp(200, 0, <<"e", "0">>, FALSE)}
      [] comps = <<"c", "sub">> ->
            {HeadResp(200, 2097152, <<"e", "s">>, TRUE)}
      [] OTHER -> {HeadResp(404, 0, NoStr, FALSE)}

\* A verifier that looks up every entry.
MustHead_Always(obj_path, last_path) == TRUE

\* "if obj_path != last_obj_path": a HEAD is issued for this entry
\* (last_obj_path starts as None, written <<>>: no object path is empty)
MustHead(obj_path, last_path) == obj_path # last_path

\* Normalisation that writes the end of the half-open pair as it is.
NormalizedRange_HalfOpen(seg, content_length) ==
    IF ~seg.has_range THEN [kind |-> "none", text |-> NoStr, len |-> content_length]
    ELSE LET ranges == RangesForLength(seg.range_obj, content_length)
         IN IF ranges = <<>>
            THEN [kind |-> "bad", text |-> <<"bytes=">> \o seg.range_text,
                  len |-> content_length]
            ELSE IF ranges = <<(<<0, content_length>>)>>
            THEN [kind |-> "none", text |-> NoStr, len |-> content_length]
            ELSE [kind |-> "some",
                  text |-> FormatRange(ranges[1][1], ranges[1][2]),
                  len |-> ranges[1][2] - ranges[1][1]]

\* Normalisation that keeps a range spanning the whole object.
NormalizedRange_KeepWhole(seg, content_length) ==
    IF ~seg.has_range THEN [kind |-> "none", text |-> NoStr, len |-> content_length]
    ELSE LET ranges == RangesForLength(seg.range_obj, content_length)
         IN IF ranges = <<>>
            THEN [kind |-> "bad", text |-> <<"bytes=">> \o seg.range_text,
                  len |-> content_length]
            ELSE IF FALSE
            THEN [kind |-> "none", text |-> NoStr, len |-> content_length]
            ELSE [kind |-> "some",
                  text |-> FormatRange(ranges[1][1], ranges[1][2] - 1),
                  len |-> ranges[1][2] - ranges[1][1]]

\* The entry's range against the observed length (lines 780-799):
\* kind "none" (no range, or one spanning the whole object, which is
\* dropped), "bad" (unsatisfiable; seg_dict keeps the Range object) or
\* "some" with the stored text 'A-B'.
NormalizedRange(seg, content_length) ==
    IF ~seg.has_range THEN [kind |-> "none", text |-> NoStr, len |-> content_length]
    ELSE LET ranges == RangesForLength(seg.range_obj, content_length)
         IN IF ranges = <<>>
            THEN [kind |-> "bad", text |-> <<"bytes=">> \o seg.range_text,
                  len |-> content_length]
            ELSE IF ranges = <<(<<0, content_length>>)>>
            THEN [kind |-> "none", text |-> NoStr, len |-> content_length]
            ELSE [kind |-> "some",
                  text |-> FormatRange(ranges[1][1], ranges[1][2] - 1),
                  len |-> ranges[1][2] - ranges[1][1]]

\* "if seg_dict['etag'] is None or seg_dict['etag'] == head_seg_resp.etag"
EtagAccepted(seg, resp) == seg.etag_kind = "null" \/ seg.etag = resp.etag

\* A digest fed the bare etag for ranged entries too.
EtagToken_NoRange(resp, norm) == resp.etag

\* What slo_etag.update() is fed for an accepted entry (lines 813-817)
EtagToken(resp, norm) ==
    IF norm.text # NoStr
    THEN resp.etag \o <<":">> \o norm.text \o <<";">>
    ELSE resp.etag

\* A verifier without the minimum-size test.
Problems_NoTooSmall(seg, k, n, resp, norm, req) ==
    (IF norm.kind = "bad"
     THEN <<[path |-> Quote(seg.path.comps), problem |-> "Unsatisfiable Range"]>>
     ELSE <<>>)
    \o (IF FALSE
        THEN <<[path |-> Quote(seg.path.comps), problem |-> "Too small"]>>
        ELSE <<>>)
    \o (IF seg.size_bytes # None /\ seg.size_bytes # resp.content_length
        THEN <<[path |-> Quote(seg.path.comps), problem |-> "Size Mismatch"]>>
        ELSE <<>>)
    \o (IF ~EtagAccepted(seg, resp)
        THEN <<[path |-> Quote(seg.path.comps), problem |-> "Etag Mismatch"]>>
        ELSE <<>>)

\* problem_segments entries of a successful HEAD, in the order recorded
Problems(seg, k, n, resp, norm, req) ==
    (IF norm.kind = "bad"
     THEN <<[path |-> Quote(seg.path.comps), problem |-> "Unsatisfiable Range"]>>
     ELSE <<>>)
    \o (IF norm.len < req.min_segment_size /\ k < n - 1
        THEN <<[path |-> Quote(seg.path.comps), problem |-> "Too small"]>>
        ELSE <<>>)
    \o (IF seg.size_bytes # None /\ seg.size_bytes # resp.content_length
        THEN <<[path |-> Quote(seg.path.comps), problem |-> "Size Mismatch"]>>
        ELSE <<>>)
    \o (IF ~EtagAccepted(seg, resp)
        THEN <<[path |-> Quote(seg.path.comps), problem |-> "Etag Mismatch"]>>
        ELSE <<>>)

\* A verifier storing what the client declared.
SegData_ClientValues(seg, resp, norm) ==
    [name |-> Path(1, seg.path.comps), bytes |-> seg.size_bytes,
     hash |-> seg.etag, range |-> norm.text, sub_slo |-> resp.slo,
     swift_bytes |-> None]

\* seg_data: the name is '/' + seg_dict['path'].lstrip('/')
SegData(seg, resp, norm) ==
    [name |-> Path(1, seg.path.comps), bytes |-> resp.content_length,
     hash |-> resp.etag, range |-> norm.text, sub_slo |-> resp.slo,
     swift_bytes |-> None]

\* The digest of the text fed to md5(): one value per text.
MD5(text) == <<"md5">> \o text

\* SloPutContext: self.slo_etag = '"' + slo_etag.hexdigest() + '"'
QuotedEtag(text) == <<"\"">> \o MD5(text) \o <<"\"">>

\* A verifier that never rejects.
HasProblems_Never(problems) == FALSE

\* "if problem_segments"
HasProblems(problems) == problems # <<>>

\* A handler without the limit on the number of segments.
TooManySegments_Never(parsed, req) == FALSE

\* "if len(parsed_data) > self.max_manifest_segments"
TooManySegments(parsed, req) == Len(parsed) > req.max_manifest_segments

\* The checks before the body is read (lines 733-741).
PutCheck ==
    /\ p_pc = "check"
    /\ IF p_req.content_length # None
          /\ p_req.content_length > p_req.max_manifest_size
       THEN p_status' = 413 /\ p_pc' = "done"
       ELSE IF p_req.copy_from
       THEN p_status' = 405 /\ p_pc' = "done"
       ELSE IF p_req.content_length = None /\ ~p_req.chunked
       THEN p_status' = 411 /\ p_pc' = "done"
       ELSE p_status' = 0 /\ p_pc' = "parse"
    /\ UNCHANGED <<p_req, parsed_data, p_errors, index, last_obj_path,
                   head_seg_resp, heads, problem_segments, data_for_storage,
                   slo_etag, total_size, p_etag, p_backend>>
    /\ UNCHANGED <<getVars, delVars, respVars, callVars, ctxVars, body_log>>

\* parse_and_validate_input and the segment count check (lines 742-750).
PutParse ==
    /\ p_pc = "parse"
    /\ LET kind == ReadBodyKind(p_req)
           errors == IF kind = "list"
                     THEN ParseErrors(p_req.body.entries, p_req)
                     ELSE <<>>
       IN IF kind # "list" \/ errors # <<>>
          THEN /\ p_errors' = errors
               /\ p_status' = 400
               /\ p_pc' = "done"
               /\ UNCHANGED parsed_data
          ELSE /\ p_errors' = <<>>
               /\ parsed_data' = [k \in 1..Len(p_req.body.entries) |->
                                     ParsedEntry(p_req.body.entries[k])]
               /\ IF TooManySegments(p_req.body.entries, p_req)
                  THEN p_status' = 413 /\ p_pc' = "done"
                  ELSE p_status' = 0 /\ p_pc' = "verify"
    /\ UNCHANGED <<p_req, index, last_obj_path, head_seg_resp, heads,
                   problem_segments, data_for_storage, slo_etag, total_size,
                   p_etag, p_backend>>
    /\ UNCHANGED <<getVars, delVars, respVars, callVars, ctxVars, body_log>>

\* One round of the verifier loop (lines 758-843).
PutVerify ==
    /\ p_pc = "verify"
    /\ index < Len(parsed_data)
    /\ LET seg == parsed_data[index + 1]
           obj_path == ObjPath(p_req, seg.path)
           head == MustHead(obj_path, last_obj_path)
       IN \E resp \in (IF head THEN HeadResponses(seg.path.comps)
                       ELSE {head_seg_resp}) :
             LET norm == NormalizedRange(seg, resp.content_length)
             IN /\ head_seg_resp' = resp
                /\ last_obj_path' = obj_path
                /\ heads' = IF head
                            THEN Append(heads, [index |-> index,
                                                path |-> obj_path,
                                                resp |-> resp])
                            ELSE heads
                /\ IF IsSuccess(resp.status)
                   THEN /\ problem_segments' = problem_segments \o
                              Problems(seg, index, Len(parsed_data), resp,
                                       norm, p_req)
                        /\ total_size' = total_size + norm.len
                        /\ slo_etag' = IF EtagAccepted(seg, resp)
                                       THEN slo_etag \o EtagToken(resp, norm)
                                       ELSE slo_etag
                        /\ data_for_storage' =
                              Append(data_for_storage, SegData(seg, resp, norm))
                   ELSE /\ problem_segments' =
                              Append(problem_segments,
                                     [path |-> Quote(seg.path.comps),
                                      problem |-> "status"])
                        /\ UNCHANGED <<total_size, slo_etag, data_for_storage>>
    /\ index' = index + 1
    /\ UNCHANGED <<p_pc, p_req, parsed_data, p_errors, p_status, p_etag,
                   p_backend>>
    /\ UNCHANGED <<getVars, delVars, respVars, callVars, ctxVars, body_log>>

\* raise HTTPBadRequest(resp_body) with the problem list (lines 844-847)
PutReject ==
    /\ p_pc = "verify"
    /\ index = Len(parsed_data)
    /\ HasProblems(problem_segments)
    /\ p_status' = 400
    /\ p_pc' = "done"
    /\ UNCHANGED <<p_req, parsed_data, p_errors, index, last_obj_path,
                   head_seg_resp, heads, problem_segments, data_for_storage,
                   slo_etag, total_size, p_etag, p_backend>>
    /\ UNCHANGED <<getVars, delVars, respVars, callVars, ctxVars, body_log>>

\* What the backend answers to the manifest PUT: created, with an Etag
\* header, or a failure without one.
BackendPutResponses ==
    {[status |-> 201, has_etag |-> TRUE], [status |-> 503, has_etag |-> FALSE]}

\* The rewritten manifest goes to the backend and its response comes back
\* with the Etag header, when there is one, replaced.
PutForward ==
    /\ p_pc = "verify"
    /\ index = Len(parsed_data)
    /\ ~HasProblems(problem_segments)
    /\ p_backend' = Append(p_backend,
                           [body |-> data_for_storage,
                            swift_bytes |-> total_size,
                            x_static_large_object |-> TRUE])
    /\ \E app_resp \in BackendPutResponses :
          /\ p_status' = app_resp.status
          /\ p_etag' = IF app_resp.has_etag THEN QuotedEtag(slo_etag)
                       ELSE NoStr
    /\ p_pc' = "done"
    /\ UNCHANGED <<p_req, parsed_data, p_errors, index, last_obj_path,
                   head_seg_resp, heads, problem_segments, data_for_storage,
                   slo_etag, total_size>>
    /\ UNCHANGED <<getVars, delVars, respVars, callVars, ctxVars, body_log>>

\* Entries a client may put in a manifest: well formed ones (sizes and
\* etags given or null, ranges of every form) and one for every check of
\* parse_and_validate_input.
Chars2(a, b) == <<a, b>>

SegA == ClientEntry(Path(1, <<"c", "a">>), Chars2("e", "1"), "int", 1048576, NoStr)
SegB == ClientEntry(Path(1, <<"c", "b">>), Chars2("e", "2"), "int", 512, NoStr)

GoodEntries ==
    {SegA, SegB,
     ClientEntry(Path(0, <<"c", "b">>), NoStr, "null", 0, NoStr),
     ClientEntry(Path(1, <<"c", "x">>), NoStr, "null", 0,
                 <<"1", "0", "0", "-", "1", "9", "9">>),
     ClientEntry(Path(2, <<"c", "x">>), Chars2("e", "x"), "str", 1000,
                 <<"-", "5">>),
     ClientEntry(Path(1, <<"c", "x">>), Chars2("e", "x"), "int", 1000,
                 <<"0", "-", "9", "9", "9">>),
     ClientEntry(Path(1, <<"c", "x">>), NoStr, "null", 0,
                 <<"9", "9", "0", "-">>),
     ClientEntry(Path(1, <<"c", "x">>), NoStr, "null", 0,
                 <<"-", "2", "0", "0", "0">>),
     ClientEntry(Path(1, <<"c", "sub">>), NoStr, "null", 0, NoStr),
     ClientEntry(Path(1, <<"c", "z">>), NoStr, "null", 0, NoStr)}

\* Well formed, but the verifier finds a problem.
ProblemEntries ==
    {ClientEntry(Path(1, <<"c", "gone">>), NoStr, "null", 0, NoStr),
     ClientEntry(Path(1, <<"c", "a">>), Chars2("z", "z"), "int", 1048576, NoStr),
     ClientEntry(Path(1, <<"c", "x">>), NoStr, "null", 0,
                 <<"2", "0", "0", "0", "-">>)}

\* Rejected by parse_and_validate_input.
BadEntries ==
    {[SegA EXCEPT !.is_dict = FALSE],
     [SegA EXCEPT !.missing = {"etag"}],
     [SegA EXCEPT !.extra = {"foo"}],
     [SegA EXCEPT !.path_is_str = FALSE],
     [SegA EXCEPT !.etag_kind = "other"],
     [SegA EXCEPT !.path = Path(1, <<"a">>)],
     [SegA EXCEPT !.size_kind = "bad"],
     [SegA EXCEPT !.extra = {"foo"}, !.etag_kind = "other",
                  !.size_kind = "bad"],
     ClientEntry(Path(1, <<"c", "o">>), NoStr, "null", 0, NoStr),
     ClientEntry(Path(0, <<"c", "o">>), NoStr, "bad", 0, NoStr),
     ClientEntry(Path(1, <<"c", "x">>), NoStr, "null", 0, <<"x">>),
     ClientEntry(Path(1, <<"c", "x">>), NoStr, "null", 0,
                 <<"0", "-", "1", ",", "3", "-", "4">>),
     ClientEntry(Path(1, <<"c", "x">>), Chars2("e", "x"), "int", 1000,
                 <<"2", "0", "0", "0", "-">>)}

ClientPool == GoodEntries \cup ProblemEntries \cup BadEntries

\* One entry more than max_manifest_segments allows.
TooManyEntries ==
    [k \in 1..(DEFAULT_MAX_MANIFEST_SEGMENTS + 1) |->
        ClientEntry(Path(1, <<"c", "b">>), NoStr, "null", 0, NoStr)]

\* As many entries, one of them not a JSON object.
TooManyWithBadEntry == [TooManyEntries EXCEPT ![2] = [SegA EXCEPT !.is_dict = FALSE]]

\* The request body: JSON text of `len` bytes, `pad` of them trailing blanks.
ListBody(entries, pad) ==
    [kind |-> "list", entries |-> entries,
     len |-> 2 + 64 * Len(entries) + pad, pad |-> pad]

PutRequest(body, content_length, chunked, copy_from, min_segment_size) ==
    [body |-> body, content_length |-> content_length, chunked |-> chunked,
     copy_from |-> copy_from,
     path_info |-> <<"v1", "AUTH", "c", "o">>,
     min_segment_size |-> min_segment_size,
     max_manifest_segments |-> DEFAULT_MAX_MANIFEST_SEGMENTS,
     max_manifest_size |-> DEFAULT_MAX_MANIFEST_SIZE]

\* Bodies tried with every combination of the request headers.
HeaderBodies ==
    {ListBody(<<SegA, SegB>>, 0),
     ListBody(<<>>, 0),
     [kind |-> "notjson", entries |-> <<>>, len |-> 5, pad |-> 0],
     [kind |-> "notlist", entries |-> <<>>, len |-> 2, pad |-> 0],
     [ListBody(<<SegA>>, 0) EXCEPT !.len = DEFAULT_MAX_MANIFEST_SIZE + 1],
     [ListBody(<<SegA>>, 4) EXCEPT !.len = DEFAULT_MAX_MANIFEST_SIZE + 2]}

MinSegmentSizes == {0, DEFAULT_MIN_SEGMENT_SIZE}

PutRequests ==
    {PutRequest(ListBody(entries, 0), 2 + 64 * Len(entries), FALSE, FALSE, mss) :
        entries \in SeqsUpTo(ClientPool, MaxClient)
                    \cup {TooManyEntries, TooManyWithBadEntry},
        mss \in MinSegmentSizes}
    \cup
    UNION {{PutRequest(body, None, chunked, copy_from,
                       DEFAULT_MIN_SEGMENT_SIZE),
            PutRequest(body, IF chunked THEN None ELSE body.len, chunked,
                       copy_from, DEFAULT_MIN_SEGMENT_SIZE)} :
           body \in HeaderBodies, chunked \in BOOLEAN,
           copy_from \in BOOLEAN}

InitPut ==
    /\ p_req \in PutRequests
    /\ p_pc = "check"
    /\ parsed_data = <<>> /\ p_errors = <<>>
    /\ index = 0 /\ last_obj_path = <<>> /\ head_seg_resp = <<>>
    /\ heads = <<>> /\ problem_segments = <<>> /\ data_for_storage = <<>>
    /\ slo_etag = <<>> /\ total_size = 0
    /\ p_status = 0 /\ p_etag = NoStr /\ p_backend = <<>>
    /\ GetIdle
    /\ DelIdle
    /\ RespIdle
    /\ CallIdle
    /\ CtxIdle
    /\ body_log = <<>>

NextPut ==
    \/ PutCheck
    \/ PutParse
    \/ PutVerify
    \/ PutReject
    \/ PutForward

SpecPut == InitPut /\ [][NextPut]_vars

(***************************************************************************)
(* Properties of the manifest PUT                                          *)
(***************************************************************************)
\* The entries the client sent, and whether the request got as far as the
\* parser with its body intact.
ClientEntries == p_req.body.entries

ReachesParser(req) ==
    /\ ~(req.content_length # None /\ req.content_length > req.max_manifest_size)
    /\ ~req.copy_from
    /\ ~(req.content_length = None /\ ~req.chunked)

\* The HEAD whose answer served client entry i (from 1): the latest one
\* issued at or before that entry.
UsedHead(i) ==
    LET ks == {k \in 1..Len(heads) : heads[k].index <= i - 1}
    IN heads[CHOOSE k \in ks : \A j \in ks : j <= k]

Accepted == p_backend # <<>>

\* C7: a PUT whose body is an empty JSON list is answered 400 and no
\* manifest object is written.
EmptyManifestRejected ==
    (p_pc = "done" /\ ReachesParser(p_req)
       /\ p_req.body.kind = "list" /\ ClientEntries = <<>>)
    => (p_status = 400 /\ p_backend = <<>>)

\* Entry i passed the verifier as far as its HEAD, etag and size go.
EntryClean(i) ==
    LET e == ClientEntries[i]
        h == UsedHead(i).resp
    IN /\ IsSuccess(h.status)
       /\ (e.etag_kind = "null" \/ e.etag = h.etag)
       /\ (e.size_kind = "null" \/ e.size = h.content_length)

\* C8: the rewritten manifest is forwarded to the backend only if parsing
\* produced no per-index error and the verifier recorded no problem for any
\* entry; a request with a parse error or a verifier problem is answered
\* 400 and the backend PUT is never issued.
ForwardOnlyIfClean ==
    /\ Accepted =>
          /\ ReadBodyKind(p_req) = "list"
          /\ \A k \in 1..Len(ClientEntries) :
                /\ ParseError(ClientEntries[k], k - 1, Len(ClientEntries),
                              p_req) = ""
                /\ EntryClean(k)
          /\ p_errors = <<>>
          /\ problem_segments = <<>>
    /\ (p_pc = "done" /\ (p_errors # <<>> \/ problem_segments # <<>>)) =>
          (p_status = 400 /\ p_backend = <<>>)
    /\ Len(p_backend) <= 1

\* A two-entry manifest whose first entry verified and whose second did not
\* has been answered.
ForwardOnlyIfCleanWitness ==
    /\ p_pc = "done"
    /\ p_status = 400
    /\ Len(data_for_storage) = 1
    /\ Len(problem_segments) = 1
    /\ Len(heads) = 2

\* C9: the stored manifest has one entry per client entry in the same
\* order, and stored entry i has bytes and hash equal to the Content-Length
\* and ETag of the HEAD used for client entry i, a HEAD of that entry's
\* object, whether the client gave etag and size_bytes or null.
StoredReflectsHead ==
    Accepted =>
       LET body == p_backend[1].body
       IN /\ Len(body) = Len(ClientEntries)
          /\ \A i \in 1..Len(body) :
                /\ body[i].name = Path(1, ClientEntries[i].path.comps)
                /\ UsedHead(i).path = ObjPath(p_req, ClientEntries[i].path)
                /\ body[i].bytes = UsedHead(i).resp.content_length
                /\ body[i].hash = UsedHead(i).resp.etag

\* Accepted: a manifest of two entries for the same object, one of them
\* with null etag and size, served by a single HEAD.
StoredReflectsHeadWitness ==
    /\ Accepted
    /\ Len(ClientEntries) = 2
    /\ Len(heads) = 1
    /\ \E i \in 1..2 : /\ ClientEntries[i].etag_kind = "null"
                       /\ ClientEntries[i].size_kind = "null"
    /\ \E i \in 1..2 : ClientEntries[i].etag_kind = "str"

\* The bytes of an object of `length` bytes a client range selects, worked
\* out from the text of the range: first and last offset.
SpanOf(text, length) ==
    LET d == DashPos(text)
        a == SubSeq(text, 1, d - 1)
        b == SubSeq(text, d + 1, Len(text))
    IN [start |-> IF a = <<>> THEN Max(length - ParseInt(b), 0)
                  ELSE ParseInt(a),
        last |-> IF a = <<>> \/ b = <<>> THEN length - 1
                 ELSE Min(ParseInt(b), length - 1)]

IsWhole(text, length) ==
    \/ text = NoStr
    \/ (SpanOf(text, length).start = 0 /\ SpanOf(text, length).last = length - 1)

\* The token of entry i: the observed etag, followed for a ranged segment
\* by ':', the range as 'A-B' and ';'.
ExpectedToken(i) ==
    LET h == UsedHead(i).resp
        text == ClientEntries[i].range
    IN IF IsWhole(text, h.content_length) THEN h.etag
       ELSE h.etag \o <<":">>
            \o Dec(SpanOf(text, h.content_length).start) \o <<"-">>
            \o Dec(SpanOf(text, h.content_length).last) \o <<";">>

ExpectedLength(i) ==
    LET h == UsedHead(i).resp
        text == ClientEntries[i].range
    IN IF IsWhole(text, h.content_length) THEN h.content_length
       ELSE SpanOf(text, h.content_length).last
            - SpanOf(text, h.content_length).start + 1

\* C10: for an accepted manifest the ETag returned is the quoted MD5 of the
\* tokens of its entries concatenated in declared order, and the size
\* recorded is the sum of the lengths selected; segments a (1048576 bytes,
\* etag e1) and b (512 bytes, etag e2) give MD5("e1" + "e2") and 1049088.
CompositeEtag ==
    /\ (Accepted /\ p_status = 201) =>
          p_etag = <<"\"", "md5">>
                   \o Flatten([i \in 1..Len(ClientEntries) |-> ExpectedToken(i)])
                   \o <<"\"">>
    /\ Accepted =>
          p_backend[1].swift_bytes =
             SumSeq([i \in 1..Len(ClientEntries) |-> ExpectedLength(i)])
    /\ (Accepted /\ p_status = 201 /\ ClientEntries = <<SegA, SegB>>) =>
          /\ p_etag = <<"\"", "md5", "e", "1", "e", "2", "\"">>
          /\ p_backend[1].swift_bytes = 1049088

\* Accepted and answered 201: a manifest with a ranged entry whose range
\* was rewritten against the observed length, after a whole segment.
CompositeEtagWitness ==
    /\ Accepted
    /\ p_status = 201
    /\ Len(ClientEntries) = 2
    /\ ClientEntries[1].range = NoStr
    /\ ClientEntries[2].range = <<"-", "5">>
    /\ p_backend[1].body[2].range = <<"9", "9", "5", "-", "9", "9", "9">>

\* The manifest the backend was sent.
StoredBody == p_backend[1].body

\* A stored range text is digits, a dash, digits.
IsConcreteRange(text) ==
    /\ \E k \in 1..Len(text) : text[k] = "-"
    /\ IsNumber(SubSeq(text, 1, DashPos(text) - 1))
    /\ IsNumber(SubSeq(text, DashPos(text) + 1, Len(text)))

\* C12: in every manifest stored by an accepted PUT a range field, if
\* present, is 'A-B' with integers 0 <= A <= B < bytes.
StoredRangeConcrete ==
    Accepted =>
       \A i \in 1..Len(StoredBody) :
          StoredBody[i].range # NoStr =>
             /\ IsConcreteRange(StoredBody[i].range)
             /\ 0 <= RangeParts(StoredBody[i].range)[1]
             /\ RangeParts(StoredBody[i].range)[1]
                   <= RangeParts(StoredBody[i].range)[2]
             /\ RangeParts(StoredBody[i].range)[2] < StoredBody[i].bytes

\* Accepted: '100-199' against a segment of 150 bytes, stored as '100-149'.
StoredRangeConcreteWitness ==
    /\ Accepted
    /\ Len(StoredBody) = 2
    /\ ClientEntries[1].range = <<"1", "0", "0", "-", "1", "9", "9">>
    /\ StoredBody[1].bytes = 150
    /\ StoredBody[1].range = <<"1", "0", "0", "-", "1", "4", "9">>

\* The verifier has just handled a ranged entry whose range covers the whole
\* of the segment as the HEAD observed it.
WholeRangeStep ==
    /\ p_pc = "verify"
    /\ index' = index + 1
    /\ IsSuccess(head_seg_resp'.status)
    /\ ClientEntries[index'].range # NoStr
    /\ IsWhole(ClientEntries[index'].range, head_seg_resp'.content_length)

\* C13: a client range that covers exactly the whole segment is dropped:
\* the stored entry has no range, its effective length is the actual
\* length, and the digest is fed the plain etag.
WholeRangeDropped ==
    /\ [](Accepted =>
            \A i \in 1..Len(StoredBody) :
               (/\ ClientEntries[i].range # NoStr
                /\ IsWhole(ClientEntries[i].range,
                           UsedHead(i).resp.content_length))
               => (/\ StoredBody[i].range = NoStr
                   /\ SegmentLength(StoredBody[i])
                         = UsedHead(i).resp.content_length))
    /\ [][WholeRangeStep =>
            /\ data_for_storage'[Len(data_for_storage')].range = NoStr
            /\ total_size' = total_size + head_seg_resp'.content_length
            /\ (EtagAccepted(parsed_data[index'], head_seg_resp')
                  => slo_etag' = slo_etag \o head_seg_resp'.etag)]_vars

\* Accepted: the entry /c/x, etag ex, 1000 bytes, range 0-999, stored
\* without a range, the digest fed "ex".
WholeRangeDroppedWitness ==
    /\ Accepted
    /\ Len(StoredBody) = 1
    /\ ClientEntries[1].range = <<"0", "-", "9", "9", "9">>
    /\ StoredBody[1].bytes = 1000
    /\ StoredBody[1].range = NoStr
    /\ slo_etag = <<"e", "x">>

\* C14: in every accepted manifest each entry but the last has effective
\* length (the ranged length if a range is stored, else the segment's
\* size) of at least min_segment_size; the last entry may be shorter.
MinSegmentSizeKept ==
    Accepted =>
       \A i \in 1..(Len(StoredBody) - 1) :
          SegmentLength(StoredBody[i]) >= p_req.min_segment_size

\* Accepted: a manifest whose only segment is shorter than the minimum.
MinSegmentSizeKeptWitness ==
    /\ Accepted
    /\ p_req.min_segment_size = DEFAULT_MIN_SEGMENT_SIZE
    /\ Len(StoredBody) = 1
    /\ StoredBody[1].bytes = 512

\* Entry i names the manifest's own object.
NamesItself(i) ==
    LET e == ClientEntries[i]
    IN /\ e.is_dict /\ e.missing = {} /\ e.extra = {} /\ e.path_is_str
       /\ ObjPath(p_req, e.path) = p_req.path_info

\* Entry i passes the checks made before the one for a self reference.
WellFormedEntry(i) ==
    LET e == ClientEntries[i]
    IN /\ e.etag_kind # "other"
       /\ e.size_kind # "bad"
       /\ ~(e.size_kind # "null" /\ e.size < p_req.min_segment_size
            /\ i < Len(ClientEntries))

\* C15: a manifest with an entry that resolves to the manifest's own path
\* is answered 400, no HEAD and no backend PUT is issued, and the entry is
\* reported as 'manifest must not include itself as a segment'.
SelfReferenceRejected ==
    (/\ p_pc = "done" /\ ReachesParser(p_req) /\ ReadBodyKind(p_req) = "list"
     /\ \E i \in 1..Len(ClientEntries) : NamesItself(i))
    => /\ p_status = 400
       /\ heads = <<>>
       /\ p_backend = <<>>
       /\ \A i \in 1..Len(ClientEntries) :
             (NamesItself(i) /\ WellFormedEntry(i)) =>
                \E k \in 1..Len(p_errors) :
                   /\ p_errors[k].index = i - 1
                   /\ p_errors[k].msg =
                         "manifest must not include itself as a segment"

\* Answered: a valid first entry followed by one naming the manifest.
SelfReferenceRejectedWitness ==
    /\ p_pc = "done"
    /\ Len(ClientEntries) = 2
    /\ ClientEntries[1] = SegA
    /\ NamesItself(2) /\ WellFormedEntry(2)
    /\ p_status = 400
    /\ Len(p_errors) = 1

\* C16: a body larger than max_manifest_size is answered 413, sent with a
\* Content-Length or with chunked transfer encoding.
OversizeBodyRejected ==
    (/\ p_pc = "done"
     /\ ~p_req.copy_from
     /\ p_req.body.len > p_req.max_manifest_size
     /\ (p_req.content_length # None \/ p_req.chunked))
    => p_status = 413

\* Some entry of the manifest fails parse_and_validate_input.
SomeParseError ==
    \E k \in 1..Len(ClientEntries) :
       ParseError(ClientEntries[k], k - 1, Len(ClientEntries), p_req) # ""

OverSegmentLimit ==
    /\ p_pc = "done" /\ ReachesParser(p_req) /\ ReadBodyKind(p_req) = "list"
    /\ Len(ClientEntries) > p_req.max_manifest_segments

\* C17 as stated: a manifest with more than max_manifest_segments entries
\* is answered 413 whatever its entries hold, and no HEAD is issued.
TooManySegmentsAlways413 ==
    OverSegmentLimit => (p_status = 413 /\ heads = <<>>)

\* C17: a manifest with more than max_manifest_segments entries is never
\* verified or stored: it is answered 413 when every entry passes the
\* parser and 400 when one does not, and no HEAD is issued.
TooManySegmentsRejected ==
    OverSegmentLimit =>
       /\ heads = <<>>
       /\ p_backend = <<>>
       /\ p_status = IF SomeParseError THEN 400 ELSE 413

TooManySegmentsRejectedWitness ==
    /\ OverSegmentLimit
    /\ ~SomeParseError
    /\ p_status = 413

(***************************************************************************)
(* SloGetContext.handle_slo_get_or_head                                    *)
(***************************************************************************)
BytesPrefix == <<"b", "y", "t", "e", "s", " ">>

\* The header "Content-Range: bytes f-l/n" a backend writes, and the one
\* it writes on a 416.
ContentRange(f, l, n) ==
    BytesPrefix \o Dec(f) \o <<"-">> \o Dec(l) \o <<"/">> \o Dec(n)
StarContentRange(n) == BytesPrefix \o <<"*", "/">> \o Dec(n)

HasChar(t, c) == \E k \in 1..Len(t) : t[k] = c
FirstPos(t, c) == CHOOSE k \in 1..Len(t) : t[k] = c /\ \A j \in 1..(k - 1) : t[j] # c

\* re.match('bytes (\d+)-(\d+)/(\d+)$', content_range)
MatchContentRange(text) ==
    LET rest == SubSeq(text, 7, Len(text))
        no == [ok |-> FALSE, first |-> 0, last |-> 0, length |-> 0]
    IN IF Len(text) < 7 \/ SubSeq(text, 1, 6) # BytesPrefix THEN no
       ELSE IF ~HasChar(rest, "-") \/ ~HasChar(rest, "/") THEN no
       ELSE LET d == FirstPos(rest, "-")
                sl == FirstPos(rest, "/")
                a == SubSeq(rest, 1, d - 1)
                b == SubSeq(rest, d + 1, sl - 1)
                c == SubSeq(rest, sl + 1, Len(rest))
            IN IF d < sl /\ IsNumber(a) /\ IsNumber(b) /\ IsNumber(c)
               THEN [ok |-> TRUE, first |-> ParseInt(a), last |-> ParseInt(b),
                     length |-> ParseInt(c)]
               ELSE no

\* req.range: the parsed Range header, None when absent or invalid
HasRange(req) == req.range # NoStr /\ ParseRange(req.range).ok
ReqRanges(req) == ParseRange(req.range).ranges

\* A backend response to a request for the manifest object.  span is what
\* the body really holds of the object, (first, last, length), empty when
\* the body is not a part of it; the handler reads only the header text.
BackendResp(status, x_slo, content_range, body, span) ==
    [status |-> status, x_slo |-> x_slo, content_range |-> content_range,
     body |-> body, span |-> span]

\* What the backend may answer to the client's own request.
BackendFirst(req, store) ==
    IF ~store.exists
    THEN {BackendResp(404, FALSE, NoStr, "error", <<>>)}
    ELSE IF req.method = "HEAD"
    THEN {BackendResp(200, store.slo, NoStr, "none", <<>>)}
    ELSE (IF req.if_match
          THEN {BackendResp(412, store.slo, NoStr, "none", <<>>)} ELSE {})
         \cup
         (IF req.if_none_match
          THEN {BackendResp(304, store.slo, NoStr, "none", <<>>)} ELSE {})
         \cup
         (IF ~HasRange(req)
          THEN {BackendResp(200, store.slo, NoStr, "whole",
                            <<0, store.len - 1, store.len>>)}
          ELSE LET rs == RangesForLength(ReqRanges(req), store.len)
               IN IF Len(rs) = 0
                  THEN {BackendResp(416, store.slo, StarContentRange(store.len),
                                    "error", <<>>),
                        BackendResp(416, store.slo, NoStr, "error", <<>>)}
                  ELSE IF Len(rs) = 1
                  THEN {BackendResp(206, store.slo,
                                    ContentRange(rs[1][1], rs[1][2] - 1,
                                                 store.len),
                                    IF rs[1] = <<0, store.len>> THEN "whole"
                                    ELSE "part",
                                    <<rs[1][1], rs[1][2] - 1, store.len>>)}
                  ELSE {BackendResp(206, store.slo, NoStr, "part", <<>>)})

\* What it may answer to the re-fetch: the whole object, or a failure.
BackendFresh(store) ==
    {BackendResp(200, store.slo, NoStr, "whole",
                 <<0, store.len - 1, store.len>>),
     BackendResp(503, FALSE, NoStr, "error", <<>>)}

\* A re-fetch that trusts a 206 or 416 whose Content-Range it cannot read.
NeedToRefetchManifest_TrustUnreadable(req, resp) ==
    IF req.method = "HEAD" THEN TRUE
    ELSE IF (req.if_match \/ req.if_none_match) /\ ~IsSuccess(resp.status)
    THEN TRUE
    ELSE IF HasRange(req) /\ resp.status \in {206, 416}
    THEN LET match == MatchContentRange(resp.content_range)
         IN IF ~match.ok THEN FALSE
            ELSE ~(match.first = 0 /\ match.last = match.length - 1)
    ELSE FALSE

\* _need_to_refetch_manifest
NeedToRefetchManifest(req, resp) ==
    IF req.method = "HEAD" THEN TRUE
    ELSE IF (req.if_match \/ req.if_none_match) /\ ~IsSuccess(resp.status)
    THEN TRUE
    ELSE IF HasRange(req) /\ resp.status \in {206, 416}
    THEN LET match == MatchContentRange(resp.content_range)
         IN IF ~match.ok THEN TRUE
            ELSE ~(match.first = 0 /\ match.last = match.length - 1)
    ELSE FALSE

\* A call made to the backend, for the manifest or for a segment, with
\* its answer.
BackendCall(target, method, range, conditional, resp) ==
    [target |-> target, method |-> method, range |-> range,
     conditional |-> conditional, resp |-> resp]

\* make_subrequest(req.environ, method='GET', headers={'x-auth-token': ...})
RefetchCall(resp) == BackendCall("manifest", "GET", NoStr, FALSE, resp)

\* A handler that takes the stored entries whatever body it read.
DecodedSegments_Stored(resp, store) == store.segments

\* json.loads(resp_body), [] when the body does not decode
DecodedSegments(resp, store) ==
    IF resp.body = "whole" /\ store.json_ok THEN store.segments ELSE <<>>

\* A digest that leaves the range out.
GetEtagToken_HashOnly(seg) == seg.hash

\* What etag.update() is fed for a stored entry (lines 579-582)
GetEtagToken(seg) ==
    IF seg.range # NoStr
    THEN seg.hash \o <<":">> \o seg.range \o <<";">>
    ELSE seg.hash

\* The Content-Length and Etag get_or_head_response computes (576-592)
ComputedHeaders(segments) ==
    [content_length |->
        SumSeq([k \in 1..Len(segments) |->
                   SegmentLength(OverrideBytes(segments[k]))]),
     etag |-> QuotedEtag(Flatten([k \in 1..Len(segments) |->
                                     GetEtagToken(segments[k])]))]

\* A response to the client.  etag and content_length are None / empty on
\* a response that carries no computed header.
ClientResp(kind, status, etag, content_length) ==
    [kind |-> kind, status |-> status, etag |-> etag,
     content_length |-> content_length, complete |-> FALSE]

NoResp == ClientResp("none", 0, NoStr, None)

\* A window that keeps the end ranges_for_length returns, one past the
\* last byte.
RangeWindow_NoDecrement(req, content_length) ==
    IF ~HasRange(req)
    THEN [status |-> 0, first |-> None, last |-> None, ranged |-> FALSE]
    ELSE LET byteranges == RangesForLength(ReqRanges(req), content_length)
         IN IF Len(byteranges) = 0
            THEN [status |-> 416, first |-> None, last |-> None,
                  ranged |-> TRUE]
            ELSE IF Len(byteranges) = 1
            THEN [status |-> 0, first |-> byteranges[1][1],
                  last |-> byteranges[1][2], ranged |-> TRUE]
            ELSE [status |-> 0, first |-> None, last |-> None,
                  ranged |-> FALSE]

\* A handler that leaves req.range set when several ranges are satisfiable.
RangeWindow_KeepMultiRange(req, content_length) ==
    IF ~HasRange(req)
    THEN [status |-> 0, first |-> None, last |-> None, ranged |-> FALSE]
    ELSE LET byteranges == RangesForLength(ReqRanges(req), content_length)
         IN IF Len(byteranges) = 0
            THEN [status |-> 416, first |-> None, last |-> None,
                  ranged |-> TRUE]
            ELSE IF Len(byteranges) = 1
            THEN [status |-> 0, first |-> byteranges[1][1],
                  last |-> byteranges[1][2] - 1, ranged |-> TRUE]
            ELSE [status |-> 0, first |-> None, last |-> None,
                  ranged |-> TRUE]

\* The window _manifest_get_response sets (lines 606-617); status 416 when
\* no range is satisfiable; ranged tells whether req.range is still set.
RangeWindow(req, content_length) ==
    IF ~HasRange(req)
    THEN [status |-> 0, first |-> None, last |-> None, ranged |-> FALSE]
    ELSE LET byteranges == RangesForLength(ReqRanges(req), content_length)
         IN IF Len(byteranges) = 0
            THEN [status |-> 416, first |-> None, last |-> None,
                  ranged |-> TRUE]
            ELSE IF Len(byteranges) = 1
            THEN [status |-> 0, first |-> byteranges[1][1],
                  last |-> byteranges[1][2] - 1, ranged |-> TRUE]
            ELSE [status |-> 0, first |-> None, last |-> None,
                  ranged |-> FALSE]

\* A handler that re-fetches with the first body still open.
ManifestEvents_NoCloseBeforeRefetch(outcome) ==
    IF outcome = "passthrough"
    THEN <<BodyEvent("open", <<"manifest", 1>>, ""),
           BodyEvent("return", <<"manifest", 1>>, "")>>
    ELSE IF outcome = "refetch"
    THEN <<BodyEvent("open", <<"manifest", 1>>, ""),
           BodyEvent("open", <<"manifest", 2>>, ""),
           BodyEvent("close", <<"manifest", 2>>, "read")>>
    ELSE <<BodyEvent("open", <<"manifest", 1>>, ""),
           BodyEvent("close", <<"manifest", 1>>, "read")>>

\* The manifest bodies of handle_slo_get_or_head: resp_iter is returned to
\* the caller on a pass-through (lines 531, 547), closed before the
\* re-fetch (line 550) and closed after get_or_head_response has read it
\* (lines 569-570).
ManifestEvents(outcome) ==
    IF outcome = "passthrough"
    THEN <<BodyEvent("open", <<"manifest", 1>>, ""),
           BodyEvent("return", <<"manifest", 1>>, "")>>
    ELSE IF outcome = "refetch"
    THEN <<BodyEvent("open", <<"manifest", 1>>, ""),
           BodyEvent("close", <<"manifest", 1>>, "refetch"),
           BodyEvent("open", <<"manifest", 2>>, ""),
           BodyEvent("close", <<"manifest", 2>>, "read")>>
    ELSE <<BodyEvent("open", <<"manifest", 1>>, ""),
           BodyEvent("close", <<"manifest", 1>>, "read")>>

\* handle_slo_get_or_head up to the response it returns: the first call,
\* the pass-through cases, the re-fetch, get_or_head_response, and, for a
\* GET, _manifest_get_response up to the creation of the listing iterator.
HandleGetOrHead(req, store) ==
    \E first \in BackendFirst(req, store) :
       LET call == BackendCall("manifest", req.method,
                               IF HasRange(req) THEN req.range ELSE NoStr,
                               req.if_match \/ req.if_none_match, first)
       IN /\ h_req' = req
          /\ h_store' = store
          /\ IF ~first.x_slo \/ req.multipart_manifest_get
             THEN /\ h_calls' = <<call>>
                  /\ h_resp' = ClientResp("passthrough", first.status, NoStr,
                                          None)
                  /\ h_computed' = <<>>
                  /\ h_pc' = "done"
                  /\ body_log' = body_log \o ManifestEvents("passthrough")
                  /\ UNCHANGED getVars
             ELSE \E used \in (IF NeedToRefetchManifest(req, first)
                               THEN BackendFresh(store) ELSE {first}) :
                     LET segments == DecodedSegments(used, store)
                         computed == ComputedHeaders(segments)
                         window == RangeWindow(req, computed.content_length)
                     IN /\ h_calls' = IF NeedToRefetchManifest(req, first)
                                      THEN <<call, RefetchCall(used)>>
                                      ELSE <<call>>
                        /\ body_log' = body_log \o ManifestEvents(
                              IF NeedToRefetchManifest(req, first)
                              THEN "refetch" ELSE "read")
                        /\ h_computed' =
                              [content_length |-> computed.content_length,
                               etag |-> computed.etag,
                               segments |-> segments,
                               ranged |-> window.ranged]
                        /\ IF req.method = "HEAD"
                           THEN /\ h_resp' = ClientResp("head", 200,
                                                computed.etag,
                                                computed.content_length)
                                /\ h_pc' = "done"
                                /\ UNCHANGED getVars
                           ELSE IF window.status = 416
                           THEN /\ h_resp' = ClientResp("error", 416, NoStr,
                                                        None)
                                /\ h_pc' = "done"
                                /\ UNCHANGED getVars
                           ELSE /\ h_resp' = NoResp
                                /\ h_pc' = "probe"
                                /\ first_byte' = window.first
                                /\ last_byte' = window.last
                                /\ req_window' = <<window.first, window.last>>
                                /\ req_segments' = segments
                                /\ g_pc' = "start"
                                /\ UNCHANGED <<stack, g_err, yielded, fetches>>

RespHandle ==
    /\ h_pc = "call"
    /\ HandleGetOrHead(h_req, h_store)
    /\ UNCHANGED <<delVars, putVars, callVars, ctxVars>>

\* The listing generator runs when the response's consumer asks for the
\* next segment: up to its first yield for the probe, then to its end.
RespIter ==
    /\ \/ h_pc = "probe" /\ yielded = <<>>
       \/ h_pc = "stream"
    /\ NextGet

\* A response committed before the first segment is looked at.
ProbeFailed_Never(listing_failed, segment_failed) == FALSE

\* "except (ListingIterError, SegmentError)" around validate_first_segment
ProbeFailed(listing_failed, segment_failed) ==
    listing_failed \/ segment_failed

\* segmented_iter.validate_first_segment() and the response that follows
\* (lines 645-661): the first segment, if the listing produced one, is
\* requested from the backend and may fail its checks.
ValidateFirstSegment ==
    /\ h_pc = "probe"
    /\ yielded # <<>> \/ g_pc \in {"done", "error"}
    /\ \E segment_failed \in (IF yielded # <<>> THEN BOOLEAN ELSE {FALSE}) :
          /\ h_calls' = IF yielded # <<>>
                        THEN Append(h_calls,
                                    BackendCall("segment", "GET",
                                                <<yielded[1][2], yielded[1][3]>>,
                                                FALSE,
                                                [name |-> yielded[1][1].name,
                                                 failed |-> segment_failed]))
                        ELSE h_calls
          /\ IF ProbeFailed(g_pc = "error" /\ yielded = <<>>, segment_failed)
             THEN /\ h_resp' = ClientResp("error", 409, NoStr, None)
                  /\ h_pc' = "done"
             ELSE /\ h_resp' = ClientResp("slo",
                                          IF h_computed.ranged THEN 206
                                          ELSE 200,
                                          IF h_computed.ranged THEN NoStr
                                          ELSE h_computed.etag,
                                          h_computed.content_length)
                  /\ h_pc' = "stream"
    /\ UNCHANGED <<h_req, h_store, h_computed>>
    /\ UNCHANGED <<getVars, delVars, putVars, callVars, ctxVars, body_log>>

\* The body ends: the listing is exhausted, or an error dropped it.
StreamEnd ==
    /\ h_pc = "stream"
    /\ g_pc \in {"done", "error"}
    /\ h_resp' = [h_resp EXCEPT !.complete = (g_pc = "done")]
    /\ h_pc' = "done"
    /\ UNCHANGED <<h_req, h_store, h_calls, h_computed>>
    /\ UNCHANGED <<getVars, delVars, putVars, callVars, ctxVars, body_log>>

\* The object under the request path: absent, a plain object, a manifest
\* whose body does not decode, or a manifest; len is the size of the
\* stored object in bytes.
StoredObject(exists, slo, json_ok, segments) ==
    [exists |-> exists, slo |-> slo, json_ok |-> json_ok,
     segments |-> segments, len |-> 2 + 10 * Len(segments)]

RespManifests ==
    { <<>>,
      <<Leaf("a", 2), Ranged(Leaf("b", 3), 1, 2)>>,
      <<Leaf("z", 0)>>,
      <<Sub("S", 4, 4), Leaf("a", 2)>>,
      <<Sub("D1", 2, None)>>,
      <<Leaf("a", 2), Sub("D1", 2, None)>>,
      <<Sub("P", 2, None), Leaf("a", 2)>>,
      <<Sub("T", 5, None)>> }

RespStores ==
    {StoredObject(FALSE, FALSE, FALSE, <<>>),
     StoredObject(TRUE, FALSE, TRUE, <<>>),
     StoredObject(TRUE, TRUE, FALSE, <<>>)}
    \cup {StoredObject(TRUE, TRUE, TRUE, segments) : segments \in RespManifests}

\* Range headers a client may send (the text after "bytes="): none, one
\* range, a suffix, an open range, several ranges, ranges beyond the
\* object, and one that does not parse.
RespRanges ==
    { NoStr,
      <<"0", "-", "1">>,
      <<"1", "-">>,
      <<"-", "1">>,
      <<"0", "-", "9", "9">>,
      <<"3", "-", "9">>,
      <<"5", "0", "-">>,
      <<"0", "-", "0", ",", "2", "-", "3">>,
      <<"0", "-", "0", ",", "5", "0", "-">>,
      <<"x">> }

ClientRequest(method, multipart_manifest_get, if_match, if_none_match, range) ==
    [method |-> method, multipart_manifest_get |-> multipart_manifest_get,
     if_match |-> if_match, if_none_match |-> if_none_match, range |-> range]

RespRequests ==
    {ClientRequest(method, mmget, if_match, if_none_match, range) :
        method \in {"GET", "HEAD"}, mmget \in BOOLEAN, if_match \in BOOLEAN,
        if_none_match \in BOOLEAN, range \in RespRanges}

InitResp ==
    /\ h_req \in RespRequests
    /\ h_store \in RespStores
    /\ h_pc = "call"
    /\ h_calls = <<>>
    /\ h_computed = <<>>
    /\ h_resp = NoResp
    /\ GetIdle
    /\ DelIdle
    /\ PutIdle
    /\ CallIdle
    /\ CtxIdle
    /\ body_log = <<>>

NextResp ==
    \/ RespHandle
    \/ RespIter
    \/ ValidateFirstSegment
    \/ StreamEnd

SpecResp == InitResp /\ [][NextResp]_vars

(***************************************************************************)
(* Properties of the GET/HEAD handler                                      *)
(***************************************************************************)
FirstResp == h_calls[1].resp

\* The handler has answered the first call and found a manifest that is
\* not asked for as such.
IsSloRequest ==
    h_pc # "call" /\ FirstResp.x_slo /\ ~h_req.multipart_manifest_get

Refetched == Len(h_calls) >= 2 /\ h_calls[2].target = "manifest"

\* The first response is a 206 or 416 to a request with a Range.
RangedAnswer == h_req.range # NoStr /\ FirstResp.status \in {206, 416}

\* Its Content-Range shows a proper part of the object.
PartShown ==
    /\ FirstResp.span # <<>>
    /\ (FirstResp.span[1] # 0 \/ FirstResp.span[2] # FirstResp.span[3] - 1)

ConditionalFailed ==
    /\ h_req.if_match \/ h_req.if_none_match
    /\ ~(FirstResp.status >= 200 /\ FirstResp.status <= 299)

\* C18 as stated: the manifest is re-fetched if and only if the method is
\* HEAD, or a conditional request got a non-2xx status, or a ranged request
\* got a 206 or 416 whose Content-Range shows a proper part of the object.
RefetchOnlyWhenPartShown ==
    IsSloRequest =>
       (Refetched <=> (\/ h_req.method = "HEAD"
                       \/ ConditionalFailed
                       \/ (RangedAnswer /\ PartShown)))

\* C18: the manifest is re-fetched, by a fresh GET without conditional or
\* range headers, if and only if the method is HEAD, or a conditional
\* request got a non-2xx status, or a ranged request got a 206 or 416 whose
\* Content-Range is missing or unreadable or shows a proper part of the
\* object; otherwise the body received, the whole manifest, is used.
RefetchWhenNotWhole ==
    IsSloRequest =>
       /\ Refetched <=> (\/ h_req.method = "HEAD"
                         \/ ConditionalFailed
                         \/ (RangedAnswer /\ (FirstResp.span = <<>> \/ PartShown)))
       /\ Refetched =>
             /\ h_calls[2].method = "GET"
             /\ h_calls[2].range = NoStr
             /\ ~h_calls[2].conditional
       /\ ~Refetched =>
             /\ FirstResp.body = "whole"
             /\ h_computed.segments =
                   (IF h_store.json_ok THEN h_store.segments ELSE <<>>)

\* A ranged GET whose first answer was a 416 with "Content-Range:
\* bytes */n": the manifest was fetched again.
RefetchWhenNotWholeWitness ==
    /\ IsSloRequest
    /\ h_req.method = "GET"
    /\ ~h_req.if_match /\ ~h_req.if_none_match
    /\ FirstResp.status = 416
    /\ FirstResp.content_range # NoStr
    /\ Refetched
    /\ h_resp.status = 416

\* The byte-range-specs of the request's Range header, as texts.
RangeSpecs == IF HasRange(h_req) THEN SplitComma(h_req.range) ELSE <<>>

\* One byte-range-spec can be satisfied by an object of `length` bytes: a
\* suffix of at least one byte, or a first byte inside the object.
Satisfiable(text, length) ==
    IF DashPos(text) = 1 THEN ParseInt(SubSeq(text, 2, Len(text))) > 0
    ELSE SpanOf(text, length).start < length

SatisfiableSpecs ==
    {k \in 1..Len(RangeSpecs) :
        Satisfiable(RangeSpecs[k], h_computed.content_length)}

IsSloGet == IsSloRequest /\ h_req.method = "GET"

\* C19: the Range of a GET is evaluated against the logical total length:
\* no satisfiable range gives 416 with nothing listed or fetched; exactly
\* one sets the iterator window to its first and last byte; more than one
\* is ignored and the iterator runs over the window [0, total - 1].
RangeSetsWindow ==
    /\ [](IsSloGet /\ RangeSpecs # <<>> =>
            IF SatisfiableSpecs = {}
            THEN /\ h_resp.status = 416
                 /\ h_pc = "done"
                 /\ g_pc = "idle" /\ yielded = <<>> /\ fetches = <<>>
                 /\ Len(h_calls) <= 2
            ELSE IF Cardinality(SatisfiableSpecs) = 1
            THEN LET k == CHOOSE j \in SatisfiableSpecs : TRUE
                     span == SpanOf(RangeSpecs[k], h_computed.content_length)
                 IN /\ req_window = <<span.start, span.last>>
                    /\ h_resp.status \in {0, 206, 409}
            ELSE /\ req_window = <<None, None>>
                 /\ h_resp.status \in {0, 200, 409})
    /\ [][(IsSloGet /\ g_pc = "start" /\ g_pc' = "iter") =>
            IF req_window = <<None, None>>
            THEN /\ first_byte' = 0
                 /\ last_byte' = h_computed.content_length - 1
            ELSE <<first_byte', last_byte'>> = req_window]_vars

\* A GET with "Range: bytes=0-0,2-3" over an object of four bytes was
\* served whole.
RangeSetsWindowWitness ==
    /\ IsSloGet
    /\ h_req.range = <<"0", "-", "0", ",", "2", "-", "3">>
    /\ h_computed.content_length = 4
    /\ h_pc = "done"
    /\ h_resp.status = 200
    /\ h_resp.complete
    /\ Len(yielded) = 2

\* The answer of the backend to the probe of the first segment, if asked.
SegmentProbes == SelectSeq(h_calls, LAMBDA c : c.target = "segment")

\* C20: the status of a GET of an SLO is decided by the probe of the first
\* segment: nothing is sent while the probe runs; a listing error before
\* the first segment or a failed first segment gives 409 without computed
\* headers; a success status is sent only after the probe passed.
ProbeDecidesStatus ==
    /\ h_pc = "probe" => h_resp = NoResp
    /\ (IsSloGet /\ h_pc \in {"stream", "done"} /\ h_resp.status # 416) =>
          /\ (g_pc = "error" /\ yielded = <<>>) => h_resp.status = 409
          /\ (SegmentProbes # <<>> /\ SegmentProbes[1].resp.failed)
                => h_resp.status = 409
          /\ h_resp.status = 409 =>
                /\ h_resp.etag = NoStr
                /\ h_resp.content_length = None
                /\ Len(yielded) <= 1
          /\ h_resp.status \in {200, 206} =>
                /\ yielded # <<>> \/ g_pc = "done"
                /\ SegmentProbes # <<>> => ~SegmentProbes[1].resp.failed
                /\ Len(SegmentProbes) = (IF yielded # <<>> THEN 1 ELSE 0)
          /\ h_resp.status \in {200, 206, 409}

\* A GET of a manifest nested deeper than the limit, answered 409.
ProbeDecidesStatusWitness ==
    /\ IsSloGet
    /\ h_pc = "done"
    /\ g_err = "depth"
    /\ yielded = <<>>
    /\ h_resp.status = 409

\* ------------------------------------------------------------------------
\* A manifest written by handle_multipart_put and read back by a HEAD.
\* ------------------------------------------------------------------------

\* The object the backend holds after the PUT it answered 201: the JSON
\* list of seg_data, marked X-Static-Large-Object.
WrittenObject == StoredObject(TRUE, TRUE, TRUE, p_backend[1].body)

\* HEAD requests for the object just written.
ReadBackRequests ==
    {ClientRequest("HEAD", FALSE, if_match, FALSE, range) :
        if_match \in BOOLEAN, range \in {NoStr, <<"0", "-", "1">>}}

\* handle_slo_get_or_head on the manifest the PUT stored.
ReadBack ==
    /\ p_pc = "done"
    /\ p_backend # <<>>
    /\ p_status = 201
    /\ h_pc = "idle"
    /\ \E req \in ReadBackRequests : HandleGetOrHead(req, WrittenObject)
    /\ UNCHANGED <<delVars, putVars, callVars, ctxVars>>

NextRoundTrip == NextPut \/ ReadBack

SpecRoundTrip == InitPut /\ [][NextRoundTrip]_vars

\* The read of the stored manifest succeeded.
ManifestRead ==
    /\ h_pc = "done"
    /\ h_resp.kind = "head"
    /\ h_calls[Len(h_calls)].resp.body = "whole"

\* C11: for a manifest accepted by PUT and read back unmodified, the ETag
\* and Content-Length that get_or_head_response computes from the stored
\* entries equal the composite ETag of the PUT and the total_size it wrote
\* into the swift_bytes parameter.
EtagSizeCoherence ==
    ManifestRead =>
        /\ h_computed.segments = data_for_storage
        /\ h_resp.etag = QuotedEtag(slo_etag)
        /\ p_etag # NoStr => h_resp.etag = p_etag
        /\ h_resp.content_length = p_backend[1].swift_bytes
        /\ h_resp.content_length = total_size

\* A manifest of two entries, one of them stored with a range, read back.
EtagSizeCoherenceWitness ==
    /\ ManifestRead
    /\ Len(data_for_storage) = 2
    /\ \E k \in 1..2 : data_for_storage[k].range # NoStr
    /\ p_etag # NoStr
    /\ h_resp.content_length > 0

\* ------------------------------------------------------------------------
\* The cascading delete: failed fetches and the buffer limit
\* ------------------------------------------------------------------------

\* The fetches of `name` that get_slo_segments answered with an exception.
FailedFetches(name) ==
    {k \in 1..Len(d_fetched) :
        d_fetched[k] = name /\ SloSegmentsError(d_resps[k]) # 0}

GoodFetches ==
    {k \in 1..Len(d_fetched) : SloSegmentsError(d_resps[k]) = 0}

\* The work items of `name` that carry an error.
ErrorItems(items, name) ==
    {k \in 1..Len(items) : items[k].name = name /\ items[k].error # 0}

\* The entries of a manifest that are (are not) sub-manifests.
BodyCount(name, sub_slo) ==
    Cardinality({c \in 1..Len(BodyItems(name)) :
                    BodyItems(name)[c].sub_slo = sub_slo})

RECURSIVE SumOver(_, _, _)
SumOver(set, name_of, sub_slo) ==
    IF set = {} THEN 0
    ELSE LET k == CHOOSE x \in set : TRUE
         IN BodyCount(name_of[k], sub_slo)
              + SumOver(set \ {k}, name_of, sub_slo)

FetchedNames == {d_fetched[k] : k \in 1..Len(d_fetched)}

\* C21: a failed fetch of a manifest does not abort the walk: the item gets
\* the error's code and message, it is emitted exactly once, and every
\* other queued item is processed.
FetchErrorsReported ==
    /\ d_pc = "error" => TooManyBuffered(d_segments)
    /\ \A name \in FetchedNames :
          Cardinality(ErrorItems(d_emitted, name))
             + Cardinality(ErrorItems(d_segments, name))
          = Cardinality(FailedFetches(name))
    /\ \A k \in 1..Len(d_emitted) :
          d_emitted[k].error # 0 =>
             /\ ~d_emitted[k].sub_slo
             /\ \E j \in FailedFetches(d_emitted[k].name) :
                   /\ d_emitted[k].error = SloSegmentsError(d_resps[j])
                   /\ d_emitted[k].message = SloSegmentsMessage(d_resps[j])
                   /\ d_emitted[k].message # ""
    /\ d_pc = "done" =>
          /\ d_segments = <<>>
          /\ Len(d_fetched) = 1 + SumOver(GoodFetches, d_fetched, TRUE)
          /\ Len(d_emitted) =
                Len(d_fetched) + SumOver(GoodFetches, d_fetched, FALSE)

\* The walk of n = [m, s4, T] ended: the fetch of a sub-manifest was
\* answered 404, and its item and the items behind it were emitted.
FetchErrorsReportedWitness ==
    /\ d_pc = "done"
    /\ d_root = "n"
    /\ \E k \in 1..Len(d_emitted) :
          /\ d_emitted[k].error = 404
          /\ d_emitted[k].name # d_root
          /\ k < Len(d_emitted)
    /\ \E k \in 1..Len(d_emitted) : d_emitted[k].name = "s4"

\* A step of the walk: an item leaves the queue (it is fetched or emitted).
WalkStep == d_fetched' # d_fetched \/ d_emitted' # d_emitted

\* C22: the walk never pops, fetches or emits an item while the queue holds
\* more than MAX_BUFFERED_SLO_SEGMENTS items; a step that starts with the
\* queue above the limit stops the walk with the 400.
BufferLimitStopsWalk ==
    /\ [][WalkStep => Len(d_segments) <= MAX_BUFFERED_SLO_SEGMENTS]_vars
    /\ [][(d_pc = "walk" /\ Len(d_segments) > MAX_BUFFERED_SLO_SEGMENTS) =>
             (d_pc' = "error" /\ d_emitted' = d_emitted
                /\ d_fetched' = d_fetched)]_vars
    /\ [][d_pc = "error" => (d_pc' = "error" /\ d_emitted' = d_emitted
                                /\ d_fetched' = d_fetched)]_vars

\* The walk of the wide manifest stopped with 400 before any item was
\* emitted.
BufferLimitStopsWalkWitness ==
    /\ d_pc = "error"
    /\ d_root = "w"
    /\ Len(d_segments) > MAX_BUFFERED_SLO_SEGMENTS
    /\ d_emitted = <<>>

\* ------------------------------------------------------------------------
\* StaticLargeObject.__call__
\* ------------------------------------------------------------------------

\* A request entering the middleware: its method, whether its path splits
\* into /version/account/container/object, the value of the query
\* parameter multipart-manifest ("" when absent) and whether it carries an
\* X-Static-Large-Object header.
CallRequest(method, object_path, multipart_manifest, x_static_large_object) ==
    [method |-> method, object_path |-> object_path,
     multipart_manifest |-> multipart_manifest,
     x_static_large_object |-> x_static_large_object]

CallRequests ==
    {CallRequest(method, object_path, multipart_manifest, header) :
        method \in {"GET", "HEAD", "PUT", "DELETE", "POST", "COPY"},
        object_path \in BOOLEAN,
        multipart_manifest \in {"", "put", "delete", "get"},
        header \in BOOLEAN}

\* A middleware that lets the reserved header through.
Route_HeaderAllowed(req) ==
    IF ~req.object_path THEN "app"
    ELSE IF req.method = "PUT" /\ req.multipart_manifest = "put"
    THEN "handle_multipart_put"
    ELSE IF req.method = "DELETE" /\ req.multipart_manifest = "delete"
    THEN "handle_multipart_delete"
    ELSE IF req.method \in {"GET", "HEAD"}
    THEN "handle_multipart_get_or_head"
    ELSE "app"

\* Where __call__ sends a request: to one of its handlers, to the wrapped
\* application unchanged ("app"), or to HTTPBadRequest.
Route(req) ==
    IF ~req.object_path THEN "app"
    ELSE IF req.method = "PUT" /\ req.multipart_manifest = "put"
    THEN "handle_multipart_put"
    ELSE IF req.method = "DELETE" /\ req.multipart_manifest = "delete"
    THEN "handle_multipart_delete"
    ELSE IF req.method \in {"GET", "HEAD"}
    THEN "handle_multipart_get_or_head"
    ELSE IF req.x_static_large_object THEN "HTTPBadRequest"
    ELSE "app"

Call ==
    /\ c_route = ""
    /\ c_route' = Route(c_req)
    /\ c_status' = IF Route(c_req) = "HTTPBadRequest" THEN 400 ELSE 0
    /\ UNCHANGED c_req
    /\ UNCHANGED <<getVars, delVars, putVars, respVars, ctxVars, body_log>>

InitCall ==
    /\ c_req \in CallRequests
    /\ c_route = ""
    /\ c_status = 0
    /\ CtxIdle
    /\ body_log = <<>>
    /\ GetIdle
    /\ DelIdle
    /\ PutIdle
    /\ RespIdle

NextCall == Call

SpecCall == InitCall /\ [][NextCall]_vars

\* C23: a PUT to an object path that carries X-Static-Large-Object but not
\* multipart-manifest=put is answered 400 and not forwarded to the backend.
ReservedHeaderRejected ==
    (/\ c_route # ""
     /\ c_req.method = "PUT"
     /\ c_req.object_path
     /\ c_req.x_static_large_object
     /\ c_req.multipart_manifest # "put")
        => c_status = 400 /\ c_route = "HTTPBadRequest"

\* A PUT with the header and no query parameter was answered 400.
ReservedHeaderRejectedWitness ==
    /\ c_route = "HTTPBadRequest"
    /\ c_status = 400
    /\ c_req.method = "PUT"
    /\ c_req.multipart_manifest = ""
    /\ c_req.x_static_large_object

\* ------------------------------------------------------------------------
\* The response of a GET against what its iterator yields
\* ------------------------------------------------------------------------

\* The manifest tree is as it was uploaded: every ranged entry lies inside
\* its object and every sub_slo entry records the logical length its
\* sub-manifest has now, all the way down.
RECURSIVE UnchangedTree(_, _)
UnchangedTree(segments, fuel) ==
    \A k \in 1..Len(segments) :
        LET e == OverrideBytes(segments[k])
        IN /\ e.range # NoStr =>
                 /\ RangeParts(e.range)[1] <= RangeParts(e.range)[2]
                 /\ RangeParts(e.range)[2] < e.bytes
           /\ e.sub_slo =>
                 /\ fuel > 0
                 /\ e.bytes = SumSeq([j \in 1..Len(ManifestBody(e.name)) |->
                        LET sub == OverrideBytes(ManifestBody(e.name)[j])
                        IN IF sub.range # NoStr
                           THEN RangeParts(sub.range)[2]
                                   - RangeParts(sub.range)[1] + 1
                           ELSE sub.bytes])
                 /\ UnchangedTree(ManifestBody(e.name), fuel - 1)

\* The sum of end - start + 1 over the tuples yielded.
YieldedLength ==
    SumSeq([k \in 1..Len(yielded) |-> yielded[k][3] - yielded[k][2] + 1])

\* The GET was for the whole object and its body was sent to the end.
WholeObjectServed ==
    /\ IsSloGet
    /\ h_req.range = NoStr
    /\ h_pc = "done"
    /\ h_resp.status = 200
    /\ h_resp.complete

\* C24: for a whole-object GET over a manifest tree unchanged since upload
\* the tuples the iterator yields add up to the Content-Length header.
YieldedMatchesContentLength ==
    (WholeObjectServed /\ UnchangedTree(h_computed.segments, DepthFuel))
        => YieldedLength = h_resp.content_length

\* The manifest [S, a], S = [c, T range 1-2], T = [d, e], was served whole:
\* c, e and a are yielded, six bytes.
YieldedMatchesContentLengthWitness ==
    /\ WholeObjectServed
    /\ UnchangedTree(h_computed.segments, DepthFuel)
    /\ Len(h_computed.segments) = 2
    /\ h_computed.segments[1].name = "S"
    /\ h_resp.content_length = 6
    /\ Len(fetches) = 2

\* A tree that changed after upload: the recorded length of a sub-manifest
\* is not what its entries add up to, and the body is shorter than the
\* Content-Length.
ChangedTreeServed ==
    /\ WholeObjectServed
    /\ ~UnchangedTree(h_computed.segments, DepthFuel)
    /\ YieldedLength # h_resp.content_length

\* ------------------------------------------------------------------------
\* Two GETs on one middleware instance
\* ------------------------------------------------------------------------
\* handle_multipart_get_or_head builds one SloGetContext per request (line
\* 703); __init__ (lines 340-344) gives it its own first_byte and last_byte.
\* The variables of the GET model are the request that is running; `other`
\* is the request that is suspended at a yield or in a sub-manifest fetch.

\* The context and generator state of the running request.
RunningContext ==
    [first_byte |-> first_byte, last_byte |-> last_byte, stack |-> stack,
     g_pc |-> g_pc, g_err |-> g_err, yielded |-> yielded,
     fetches |-> fetches, req_segments |-> req_segments,
     req_window |-> req_window]

\* SloGetContext(self) for a request with a decoded manifest and a window.
NewContext(segments, window) ==
    [first_byte |-> window[1], last_byte |-> window[2], stack |-> <<>>,
     g_pc |-> "start", g_err |-> "", yielded |-> <<>>, fetches |-> <<>>,
     req_segments |-> segments, req_window |-> window]

\* A middleware that keeps the window on the shared StaticLargeObject.
ContextWindow_OnMiddleware(ctx, slo_first_byte, slo_last_byte) ==
    <<slo_first_byte, slo_last_byte>>

\* self.first_byte, self.last_byte as the resumed generator reads them:
\* self is the request's own SloGetContext.
ContextWindow(ctx, slo_first_byte, slo_last_byte) ==
    <<ctx.first_byte, ctx.last_byte>>

\* The running request is suspended and the other one resumed.
Switch ==
    /\ other # <<>>
    /\ other.g_pc \in {"start", "iter"}
    /\ switches < MaxSwitches
    /\ first_byte' = ContextWindow(other, first_byte, last_byte)[1]
    /\ last_byte' = ContextWindow(other, first_byte, last_byte)[2]
    /\ stack' = other.stack
    /\ g_pc' = other.g_pc
    /\ g_err' = other.g_err
    /\ yielded' = other.yielded
    /\ fetches' = other.fetches
    /\ req_segments' = other.req_segments
    /\ req_window' = other.req_window
    /\ other' = RunningContext
    /\ switches' = switches + 1
    /\ UNCHANGED <<delVars, putVars, respVars, callVars, body_log>>

\* The GETs that are paired: whole and ranged, over plain, ranged, nested
\* and over-deep manifests.
PairRequests ==
    { <<<<Leaf("a", 2), Ranged(Leaf("b", 3), 1, 2)>>, <<None, None>>>>,
      <<<<Leaf("a", 2), Ranged(Leaf("b", 3), 1, 2)>>, <<2, 3>>>>,
      <<<<Leaf("a", 2), Ranged(Leaf("b", 3), 1, 2)>>, <<0, 0>>>>,
      <<<<Sub("S", 4, 4), Leaf("a", 2)>>, <<1, 4>>>>,
      <<<<Leaf("a", 2), Sub("D1", 2, None)>>, <<None, None>>>> }

InitTwoGets ==
    /\ \E r1 \in PairRequests, r2 \in PairRequests :
          /\ first_byte = NewContext(r1[1], r1[2]).first_byte
          /\ last_byte = NewContext(r1[1], r1[2]).last_byte
          /\ stack = NewContext(r1[1], r1[2]).stack
          /\ g_pc = NewContext(r1[1], r1[2]).g_pc
          /\ g_err = NewContext(r1[1], r1[2]).g_err
          /\ yielded = NewContext(r1[1], r1[2]).yielded
          /\ fetches = NewContext(r1[1], r1[2]).fetches
          /\ req_segments = NewContext(r1[1], r1[2]).req_segments
          /\ req_window = NewContext(r1[1], r1[2]).req_window
          /\ other = NewContext(r2[1], r2[2])
    /\ switches = 0
    /\ body_log = <<>>
    /\ CallIdle
    /\ DelIdle
    /\ PutIdle
    /\ RespIdle

NextTwoGets == NextGet \/ Switch

SpecTwoGets == InitTwoGets /\ [][NextTwoGets]_vars

\* What one generator yields when nothing else runs and every sub-manifest
\* fetch succeeds: the tuples, the window it leaves, and whether it raised.
RECURSIVE AloneRun(_, _, _, _, _)
AloneRun(segments, i, fb, lb, depth) ==
    IF i > Len(segments) THEN [out |-> <<>>, err |-> FALSE]
    ELSE LET sd == segments[i]
             seg_length == SegmentLength(sd)
         IN IF SkipTest(fb, seg_length)
            THEN AloneRun(segments, i + 1, fb - seg_length, lb - seg_length,
                          depth)
            ELSE IF BreakTest(lb) THEN [out |-> <<>>, err |-> FALSE]
            ELSE IF sd.sub_slo
            THEN IF DepthExceeded(depth) THEN [out |-> <<>>, err |-> TRUE]
                 ELSE LET sub == AloneRun(OverrideAll(ManifestBody(sd.name)),
                                          1, SubFirst(sd, fb),
                                          SubLast(sd, lb), depth + 1)
                          rest == AloneRun(segments, i + 1, fb - seg_length,
                                           lb - seg_length, depth)
                      IN IF sub.err THEN sub
                         ELSE [out |-> sub.out \o rest.out, err |-> rest.err]
            ELSE LET rest == AloneRun(segments, i + 1, fb - seg_length,
                                      lb - seg_length, depth)
                 IN [out |-> <<<<sd, YieldStart(sd, fb), YieldEnd(sd, lb)>>>>
                                \o rest.out,
                     err |-> rest.err]

Alone(ctx) ==
    AloneRun(OverrideAll(ctx.req_segments), 1,
             IF ctx.req_window[1] = None THEN 0 ELSE ctx.req_window[1],
             IF ctx.req_window[2] = None
             THEN TotalLength(OverrideAll(ctx.req_segments)) - 1
             ELSE ctx.req_window[2],
             1)

\* A request has yielded what it yields alone, as far as it has got.
AsAlone(ctx) ==
    /\ IsPrefix(ctx.yielded, Alone(ctx).out)
    /\ ctx.g_pc = "done" =>
          ctx.yielded = Alone(ctx).out /\ ~Alone(ctx).err
    /\ (ctx.g_pc = "error" /\ ctx.g_err = "depth") =>
          ctx.yielded = Alone(ctx).out /\ Alone(ctx).err

\* C25: two GETs interleaved at any point on one middleware instance each
\* yield the tuple sequence they yield when run alone.
HandlersIndependent ==
    other # <<>> => AsAlone(RunningContext) /\ AsAlone(other)

\* Both GETs ran to the end, taking turns three times, and both yielded
\* something.
HandlersIndependentWitness ==
    /\ other # <<>>
    /\ g_pc = "done" /\ other.g_pc = "done"
    /\ switches = MaxSwitches
    /\ Len(yielded) >= 2 /\ Len(other.yielded) >= 1
    /\ req_window # other.req_window

\* The same comparison for a GET that runs alone.
SingleGetAsAlone == AsAlone(RunningContext)

\* ------------------------------------------------------------------------
\* parse_and_validate_input: one message per failing entry
\* ------------------------------------------------------------------------

\* The checks of an entry, in the order they are to be made.
CheckOrder ==
    <<"not a JSON object", "missing keys", "extraneous keys",
      "path must be a string", "etag must be a string or null",
      "path does not refer to an object", "invalid size_bytes", "too small",
      "manifest must not include itself as a segment", "invalid range",
      "multiple ranges", "unsatisfiable range">>

SizeGiven(e) == e.size_kind \notin {"null", "bad"}

\* Entry e at seg_index (from 0) of num_segs fails check c, looked at on
\* its own.
FailsCheck(c, e, seg_index, num_segs, req) ==
    CASE c = 1 -> ~e.is_dict
      [] c = 2 -> e.missing # {}
      [] c = 3 -> e.extra # {}
      [] c = 4 -> ~e.path_is_str
      [] c = 5 -> e.etag_kind \notin {"null", "str"}
      [] c = 6 -> Len(e.path.comps) < 2
      [] c = 7 -> e.size_kind = "bad"
      [] c = 8 -> /\ SizeGiven(e)
                  /\ e.size < req.min_segment_size
                  /\ seg_index + 1 < num_segs
      [] c = 9 -> Quote(ObjPath(req, e.path)) = Quote(req.path_info)
      [] c = 10 -> e.range # NoStr /\ ~ParseRange(e.range).ok
      [] c = 11 -> /\ e.range # NoStr
                   /\ ParseRange(e.range).ok
                   /\ Len(ParseRange(e.range).ranges) > 1
      [] c = 12 -> /\ e.range # NoStr
                   /\ ParseRange(e.range).ok
                   /\ SizeGiven(e)
                   /\ Len(RangesForLength(ParseRange(e.range).ranges,
                                          e.size)) # 1

FailedChecks(e, seg_index, num_segs, req) ==
    {c \in 1..Len(CheckOrder) : FailsCheck(c, e, seg_index, num_segs, req)}

FirstFailedCheck(e, seg_index, num_segs, req) ==
    LET failed == FailedChecks(e, seg_index, num_segs, req)
    IN IF failed = {} THEN ""
       ELSE CheckOrder[CHOOSE c \in failed : \A d \in failed : c <= d]

HasFailedCheck(r) == r.msg # ""

\* One line per failing entry, in index order, naming its first failure.
ExpectedErrors ==
    SelectSeq([k \in 1..Len(ClientEntries) |->
                  [index |-> k - 1,
                   msg |-> FirstFailedCheck(ClientEntries[k], k - 1,
                                            Len(ClientEntries), p_req)]],
              HasFailedCheck)

\* The parser has been handed a JSON list and has returned or raised.
ListParsed ==
    /\ p_pc \in {"verify", "done"}
    /\ ReachesParser(p_req)
    /\ ReadBodyKind(p_req) = "list"

\* C26: parse_and_validate_input looks at every entry: it fails with 400 if
\* and only if some entry fails a check, and the errors are one message per
\* failing entry, in index order, each naming the first check the entry
\* fails.
AllEntryErrorsReported ==
    ListParsed =>
       /\ p_errors = ExpectedErrors
       /\ ExpectedErrors # <<>> =>
             /\ p_status = 400 /\ p_pc = "done"
             /\ parsed_data = <<>> /\ heads = <<>> /\ p_backend = <<>>
       /\ ExpectedErrors = <<>> =>
             /\ Len(parsed_data) = Len(ClientEntries)
             /\ (p_status = 400 => problem_segments # <<>>)

\* Both entries of a manifest failed, the first one three checks of which
\* the earliest is reported.
AllEntryErrorsReportedWitness ==
    /\ ListParsed
    /\ Len(ClientEntries) = 2
    /\ Len(p_errors) = 2
    /\ Cardinality(FailedChecks(ClientEntries[1], 0, 2, p_req)) = 3
    /\ p_errors[1] = [index |-> 0, msg |-> "extraneous keys"]
    /\ p_errors[2].index = 1
    /\ p_errors[2].msg = "invalid range"

\* ------------------------------------------------------------------------
\* The HEAD lookups of the verifier
\* ------------------------------------------------------------------------

\* The object path entry i (from 1) of the client's list resolves to.
Resolved(i) == ObjPath(p_req, ClientEntries[i].path)

\* Entry i is the first one or names another object than entry i - 1.
HeadDue(i) == i = 1 \/ Resolved(i) # Resolved(i - 1)

\* The lookups due for the first n entries, in declared order.
DueLookups(n) ==
    LET due == SelectSeq([i \in 1..n |-> i], HeadDue)
    IN [k \in 1..Len(due) |-> <<due[k] - 1, Resolved(due[k])>>]

HeadsIssued == [k \in 1..Len(heads) |-> <<heads[k].index, heads[k].path>>]

Verifying == p_pc = "verify" \/ (p_pc = "done" /\ heads # <<>>)

\* C27: the verifier issues its HEADs one at a time in declared order, one
\* for the first entry and for every entry whose resolved path differs from
\* the one before it, and it walks over all entries even after a problem
\* has been recorded.
HeadsCollapsed ==
    /\ [](Verifying => HeadsIssued = DueLookups(index))
    /\ []((p_pc = "done" /\ heads # <<>>) => index = Len(ClientEntries))
    /\ [][Len(heads') <= Len(heads) + 1]_vars
    /\ [][(p_pc = "verify" /\ index < Len(parsed_data)) =>
             (p_pc' = "verify" /\ index' = index + 1)]_vars

\* Two entries written "/c/b" and "c/b" were served by one HEAD, and the
\* second entry was verified although the first had a problem.
HeadsCollapsedWitness ==
    /\ p_pc = "done"
    /\ Len(ClientEntries) = 2
    /\ ClientEntries[1].path # ClientEntries[2].path
    /\ Resolved(1) = Resolved(2)
    /\ Len(heads) = 1
    /\ index = 2
    /\ Len(problem_segments) >= 2
    /\ p_status = 400

\* ------------------------------------------------------------------------
\* The sub-manifest kept by one level of the listing iterator
\* ------------------------------------------------------------------------

\* The fetches made by the level that is running (its entries have the
\* index paths cur.ipath + <<j>>), and the path fetched last among them.
FetchesHere ==
    {k \in 1..Len(fetches) :
        /\ Len(fetches[k].ipath) = Len(cur.ipath) + 1
        /\ SubSeq(fetches[k].ipath, 1, Len(cur.ipath)) = cur.ipath
        /\ fetches[k].depth = cur.recursion_depth}

LastFetchedHere ==
    IF FetchesHere = {} THEN ""
    ELSE fetches[CHOOSE k \in FetchesHere : \A j \in FetchesHere : j <= k].path

\* A sub_slo entry is expanded: the iterator calls itself.
Expands == g_pc = "iter" /\ g_pc' = "iter" /\ Len(stack') = Len(stack) + 1

\* C28: within one level a sub_slo entry naming the sub-manifest fetched
\* last at that level is expanded without a new GET, another path costs
\* exactly one GET, and the tuples yielded are those of an iterator that
\* fetches every reference afresh.
OneEntryCache ==
    /\ [](other = <<>> => AsAlone(RunningContext))
    /\ [][Expands =>
            IF seg_dict.name = LastFetchedHere
            THEN fetches' = fetches
            ELSE /\ Len(fetches') = Len(fetches) + 1
                 /\ fetches'[Len(fetches')].path = seg_dict.name
                 /\ SubSeq(fetches', 1, Len(fetches)) = fetches]_vars
    /\ [][(g_pc = "iter" /\ ~Expands /\ g_pc' # "error")
             => fetches' = fetches]_vars

\* GET of [T, T, S] (S refers to T again, one level down): T is fetched
\* once at the top level, then S, then T at the second level.
OneEntryCacheWitness ==
    /\ g_pc = "done"
    /\ other = <<>>
    /\ Len(req_segments) = 3
    /\ req_segments[1].name = "T" /\ req_segments[2].name = "T"
    /\ req_window = <<None, None>>
    /\ [k \in 1..Len(fetches) |-> fetches[k].path] = <<"T", "S", "T">>
    /\ Len(yielded) = 6

\* ------------------------------------------------------------------------
\* Manifest bodies are closed
\* ------------------------------------------------------------------------

\* The bodies open after the first n events of the log.
OpenAfter(n) ==
    {body_log[k].body : k \in {j \in 1..n : body_log[j].ev = "open"}}
       \ {body_log[k].body : k \in {j \in 1..n : body_log[j].ev # "open"}}

EventsOf(ev, kind) ==
    {k \in 1..Len(body_log) :
        body_log[k].ev = ev /\ body_log[k].body[1] = kind}

ManifestCalls == {k \in 1..Len(h_calls) : h_calls[k].target = "manifest"}

\* C29: every manifest body opened on the GET path is closed on every
\* outcome (after a non-success status, after decoding, after a decode
\* failure), the first manifest body is closed before the re-fetch, and at
\* most one manifest body is open at a time.
BodiesClosed ==
    /\ \A n \in 1..Len(body_log) : Cardinality(OpenAfter(n)) <= 1
    /\ OpenAfter(Len(body_log)) = {}
    /\ \A k \in 1..Len(body_log) :
          body_log[k].ev = "open" =>
             /\ k < Len(body_log)
             /\ body_log[k + 1].body = body_log[k].body
             /\ body_log[k + 1].ev \in {"close", "return"}
             /\ body_log[k + 1].ev = "return" =>
                   (h_resp.kind = "passthrough" /\ Len(body_log) = 2)
    /\ Cardinality(EventsOf("open", "sub")) = Len(fetches)
    /\ h_pc # "idle" =>
          Cardinality(EventsOf("open", "manifest"))
             = Cardinality(ManifestCalls)
    /\ (g_pc = "error" /\ g_err = "fetch") =>
          /\ body_log[Len(body_log)].ev = "close"
          /\ body_log[Len(body_log)].at \in {"status", "json"}

\* A GET whose manifest was fetched again and whose sub-manifest did not
\* decode: three bodies were opened and each was closed before the next.
BodiesClosedWitness ==
    /\ h_pc = "done"
    /\ h_resp.status = 409
    /\ Len(body_log) = 6
    /\ body_log[2] = BodyEvent("close", <<"manifest", 1>>, "refetch")
    /\ body_log[4] = BodyEvent("close", <<"manifest", 2>>, "read")
    /\ body_log[6] = BodyEvent("close", <<"sub", 1>>, "json")

\* The response carries the quoted composite ETag of the manifest.
CarriesEtag == h_resp.etag = ComputedHeaders(h_computed.segments).etag

\* C30: a successful GET response for an SLO omits the ETag header exactly
\* when the Range was honoured as a single satisfiable range; a response
\* for the whole object, the fallback for several ranges included, carries
\* the quoted composite ETag.
EtagOmittedWhenRanged ==
    (IsSloGet /\ h_resp.status \in {200, 206}) =>
        /\ (h_resp.etag = NoStr) <=> (Cardinality(SatisfiableSpecs) = 1)
        /\ Cardinality(SatisfiableSpecs) # 1 =>
              /\ CarriesEtag
              /\ req_window = <<None, None>>
        /\ Cardinality(SatisfiableSpecs) = 1 => req_window # <<None, None>>

\* A GET with two satisfiable ranges was answered 200 with the ETag.
EtagOmittedWhenRangedWitness ==
    /\ IsSloGet
    /\ h_resp.status = 200
    /\ Cardinality(SatisfiableSpecs) = 2
    /\ CarriesEtag
    /\ h_resp.etag # NoStr
    /\ h_computed.content_length = 4

\* ------------------------------------------------------------------------
\* The cascading delete: the buffer limit and what has been emitted
\* ------------------------------------------------------------------------

\* C31: the 400 for a work queue above the buffered-segments limit comes
\* before any destructive action: when it is raised no delete work item
\* has been emitted to the bulk deleter.
BufferErrorBeforeEmit ==
    d_pc = "error" => d_emitted = <<>>

\* The references of a manifest tree, one per node: every plain segment
\* reference, and every sub-manifest reference behind the references of its
\* own body.
RECURSIVE TreeRefs(_, _)
TreeRefs(segments, fuel) ==
    IF segments = <<>> \/ fuel = 0 THEN <<>>
    ELSE LET e == Head(segments)
         IN (IF e.sub_slo
             THEN Append(TreeRefs(ManifestBody(e.name), fuel - 1), e.name)
             ELSE <<e.name>>)
            \o TreeRefs(Tail(segments), fuel)

\* The tree under the manifest a DELETE names, the manifest included.
WholeTree(root) == Append(TreeRefs(ManifestBody(root), DepthFuel), root)

Occurrences(seq, x) == Cardinality({k \in 1..Len(seq) : seq[k] = x})

EmittedNames == [k \in 1..Len(d_emitted) |-> d_emitted[k].name]

\* Every manifest of the tree could be fetched and decoded.
TreeReadable == GoodFetches = 1..Len(d_fetched)

\* C32: over a finite acyclic manifest tree the cascading delete walk
\* terminates (with the 400 when the queue exceeds the limit), and when
\* the queue stays within the limit and every manifest is readable it
\* emits one work item per segment reference and one per manifest of the
\* tree, each with sub_slo false and no error.
WalkEmitsWholeTree ==
    /\ (d_pc = "walk" /\ Acyclic(ManifestBody(d_root)))
          ~> (d_pc \in {"done", "error"})
    /\ [](d_pc = "error" => TooManyBuffered(d_segments))
    /\ []((d_pc = "done" /\ Acyclic(ManifestBody(d_root)) /\ TreeReadable) =>
            /\ Len(d_emitted) = Len(WholeTree(d_root))
            /\ \A k \in 1..Len(d_emitted) :
                  /\ ~d_emitted[k].sub_slo
                  /\ d_emitted[k].error = 0
                  /\ Occurrences(EmittedNames, d_emitted[k].name)
                       = Occurrences(WholeTree(d_root), d_emitted[k].name))

\* The walk of m = [s1, m2] with m2 = [s2, s3] ended: three segment
\* references and two manifests were emitted.
WalkEmitsWholeTreeWitness ==
    /\ d_pc = "done"
    /\ d_root = "m"
    /\ TreeReadable
    /\ Len(d_fetched) = 2
    /\ Len(d_emitted) = 5
    /\ \A x \in {"s1", "s2", "s3", "m", "m2"} : Occurrences(EmittedNames, x) = 1

\* ------------------------------------------------------------------------
\* A manifest body that does not decode
\* ------------------------------------------------------------------------

\* The response whose body get_or_head_response reads: the re-fetch when
\* there was one, the first response otherwise.
UsedResp == IF Refetched THEN h_calls[2].resp ELSE FirstResp

\* The body read for an SLO is not the JSON list of a manifest: the stored
\* body does not decode, or the body is that of a failed re-fetch.
Undecodable ==
    /\ IsSloRequest
    /\ ~h_store.json_ok \/ UsedResp.body # "whole"

=============================================================================
